---- MODULE Spec2Model ----
(***************************************************************************)
(* The direct-collocation transcription of CasOC::Transcription            *)
(* (Moco/Moco/MocoCasADiSolver/CasOCTranscription.cpp) as a state machine. *)
(* One Transcription object is built by createVariablesAndSetBounds(),     *)
(* then transcribe() and solve() act on it.  Symbolic matrices are kept as *)
(* shapes and tables of entries; indices are 0-based as in the source.     *)
(***************************************************************************)
EXTENDS Integers, Sequences, FiniteSets, TLC

\* ------------------------------------------------------------------------
\* Bounds of the model.
\* ------------------------------------------------------------------------
\* Every count of the problem (NQ, NU, NZ, NC, NM, NP, NL, K) is in 0..MaxCount.
MaxCount == 1
\* The counts and the path-constraint sizes of one problem sum to at most MaxTotal.
MaxTotal == 3
\* The mesh has 2..MaxMesh points.
MaxMesh == 3
\* A path constraint has 1..MaxPathSize rows; a problem has 0..MaxNumPath of them.
MaxPathSize == 2
MaxNumPath == 2
\* Masks of the index-partition specification have 0..MaxMaskLen entries.
MaxMaskLen == 6
\* The objective is computed on grids of 1..MaxObjGrid points.
MaxObjGrid == 2
\* The times of a solution are computed on grids of 2..MaxTimesGrid points.
MaxTimesGrid == 4
\* The blocks that are flattened and expanded have 0..MaxFlatRows rows.
MaxFlatRows == 2
\* The rows whose norm is reported have 1..MaxRowLen entries.
MaxRowLen == 3

\* ------------------------------------------------------------------------
\* Program constants.
\* ------------------------------------------------------------------------
\* setVariableBounds(derivatives, Slice(), Slice(), {-1000, 1000})
DerivativeBound == 1000

\* ------------------------------------------------------------------------
\* Matrices (casadi::DM / casadi::MX shapes with entries).
\* ------------------------------------------------------------------------
RECURSIVE SumSeq(_)
SumSeq(s) == IF s = <<>> THEN 0 ELSE Head(s) + SumSeq(Tail(s))

\* A rows x cols matrix whose every entry is v (DM(r, c), DM::zeros, repmat of
\* a scalar).
Filled(r, c, v) ==
    [rows |-> r, cols |-> c,
     data |-> [p \in (0 .. r - 1) \X (0 .. c - 1) |-> v]]

\* The default-constructed (0 x 0) matrix.
Empty == Filled(0, 0, 0)

\* casadi wraps a negative index once: -1 is the last column.
WrapIndex(k, n) == IF k < 0 THEN k + n ELSE k

\* Slice(start, stop): the half-open range start .. stop - 1.
Slice(start, stop) == start .. (stop - 1)

\* ------------------------------------------------------------------------
\* The Problem and the Solver configuration (inputs).
\* ------------------------------------------------------------------------
Schemes == {"trapezoidal", "hermite-simpson"}

PathSizeSeqs ==
    UNION {[1 .. n -> 1 .. MaxPathSize] : n \in 0 .. MaxNumPath}

ProblemTotal(p) ==
    p.numCoordinates + p.numSpeeds + p.numAuxiliaryStates + p.numControls
    + p.numMultipliers + p.numParameters + p.numSlacks
    + p.numKinematicConstraintEquations + SumSeq(p.pathConstraintSizes)

Problems ==
    {p \in [numCoordinates : 0 .. MaxCount,
            numSpeeds : 0 .. MaxCount,
            numAuxiliaryStates : 0 .. MaxCount,
            numControls : 0 .. MaxCount,
            numMultipliers : 0 .. MaxCount,
            numParameters : 0 .. MaxCount,
            numSlacks : 0 .. MaxCount,
            numKinematicConstraintEquations : 0 .. MaxCount,
            pathConstraintSizes : PathSizeSeqs,
            enforceConstraintDerivatives : BOOLEAN] :
        ProblemTotal(p) <= MaxTotal}

Solvers ==
    [meshSize : 2 .. MaxMesh, scheme : Schemes, implicit : BOOLEAN]

getNumStates(p) == p.numCoordinates + p.numSpeeds + p.numAuxiliaryStates

getNumDerivatives(p, s) == IF s.implicit THEN p.numSpeeds ELSE 0

\* Bounds objects: a pair that may be unset.
Bounds(lo, hi) == [set |-> TRUE, lower |-> lo, upper |-> hi]
Unset == [set |-> FALSE, lower |-> 0, upper |-> 0]

getKinematicConstraintBounds == Bounds(-3, 4)
getTimeInitialBounds == Bounds(0, 0)
getTimeFinalBounds == Bounds(1, 5)

\* The info of row i of a block.  Which of the initial and final bounds are
\* given varies with the block and the row, so that every combination occurs.
VarOffset(var) ==
    CASE var = "states" -> 100
      [] var = "controls" -> 200
      [] var = "multipliers" -> 300
      [] var = "slacks" -> 400
      [] OTHER -> 500

VarPattern(var) ==
    CASE var = "states" -> 0
      [] var = "controls" -> 3
      [] var = "multipliers" -> 2
      [] OTHER -> 0

getInfo(var, i) ==
    [bounds |-> Bounds(-(VarOffset(var) + 10 * i + 9), VarOffset(var) + 10 * i + 9),
     initialBounds |->
        IF (VarPattern(var) + i) % 4 \in {0, 1}
        THEN Bounds(-(VarOffset(var) + 10 * i + 1), VarOffset(var) + 10 * i + 2)
        ELSE Unset,
     finalBounds |->
        IF (VarPattern(var) + i) % 4 \in {0, 2}
        THEN Bounds(-(VarOffset(var) + 10 * i + 3), VarOffset(var) + 10 * i + 4)
        ELSE Unset]

\* An initial or final bound that is absent falls back to the regular bound.
getInitialBounds(info) ==
    IF info.initialBounds.set THEN info.initialBounds ELSE info.bounds
getFinalBounds(info) ==
    IF info.finalBounds.set THEN info.finalBounds ELSE info.bounds

\* ------------------------------------------------------------------------
\* The transcription scheme (the subclass of Transcription).
\* ------------------------------------------------------------------------
\* Number of grid points: the mesh itself, or the mesh plus one midpoint per
\* interval.
createGridSize(scheme, M) ==
    IF scheme = "trapezoidal" THEN M ELSE 2 * M - 1

\* The 1 x G mask: 1 on mesh points, 0 on interior points.
createKinematicConstraintIndices(scheme, M) ==
    [i \in 1 .. createGridSize(scheme, M) |->
        IF scheme = "trapezoidal" THEN 1
        ELSE IF (i - 1) % 2 = 0 THEN 1 ELSE 0]

\* Defects per mesh interval: one per state, plus one interpolation condition
\* per state for Hermite-Simpson.
numDefectsPerGridPoint(scheme, NS) ==
    IF scheme = "trapezoidal" THEN NS ELSE 2 * NS


\* ------------------------------------------------------------------------
\* createVariablesAndSetBounds(): the index vectors.
\* ------------------------------------------------------------------------
\* The loop over the mask: index i goes to the first vector when the mask is 1
\* there and to the second otherwise.
RECURSIVE PartitionFromBoth(_, _, _, _)
PartitionFromBoth(mask, i, dae, iic) ==
    IF i >= Len(mask) THEN [dae |-> dae, iic |-> iic]
    ELSE IF mask[i + 1] = 1
         THEN PartitionFromBoth(mask, i + 1, Append(dae, i), iic)
         ELSE PartitionFromBoth(mask, i + 1, Append(dae, i), Append(iic, i))

RECURSIVE PartitionFrom(_, _, _, _)
PartitionFrom(mask, i, dae, iic) ==
    IF i >= Len(mask) THEN [dae |-> dae, iic |-> iic]
    ELSE IF mask[i + 1] = 1
         THEN PartitionFrom(mask, i + 1, Append(dae, i), iic)
         ELSE PartitionFrom(mask, i + 1, dae, Append(iic, i))

partitionIndicesBoth(mask) == PartitionFromBoth(mask, 0, <<>>, <<>>)

partitionIndices(mask) == PartitionFrom(mask, 0, <<>>, <<>>)

\* std::iota(begin, end, 0) on a vector of n entries.
iota(n) == [i \in 1 .. n |-> i - 1]

\* ------------------------------------------------------------------------
\* createVariablesAndSetBounds(): the counts.
\* ------------------------------------------------------------------------
numResiduals(p, s) == IF s.implicit THEN p.numSpeeds ELSE 0

\* The running sum of the loop over the path-constraint infos.
RECURSIVE addPathConstraints(_, _, _)
addPathConstraints(n, sizes, M) ==
    IF sizes = <<>> THEN n
    ELSE addPathConstraints(n + Head(sizes) * M, Tail(sizes), M)

numConstraintsNoPath(p, s, G, Nd) ==
    Nd * (s.meshSize - 1) + numResiduals(p, s) * G
    + p.numKinematicConstraintEquations * s.meshSize

numConstraints(p, s, G, Nd) ==
    addPathConstraints(
        Nd * (s.meshSize - 1) + numResiduals(p, s) * G
        + p.numKinematicConstraintEquations * s.meshSize,
        p.pathConstraintSizes, s.meshSize)

\* ------------------------------------------------------------------------
\* createVariablesAndSetBounds(): the variables and their bound tables.
\* ------------------------------------------------------------------------
Vars == {"initial_time", "final_time", "states", "controls", "multipliers",
         "derivatives", "slacks", "parameters"}

\* The shape of every block of m_vars.
createVariables(p, s, G, P) ==
    [v \in Vars |->
        CASE v = "initial_time" -> [rows |-> 1, cols |-> 1]
          [] v = "final_time" -> [rows |-> 1, cols |-> 1]
          [] v = "states" -> [rows |-> getNumStates(p), cols |-> G]
          [] v = "controls" -> [rows |-> p.numControls, cols |-> G]
          [] v = "multipliers" -> [rows |-> p.numMultipliers, cols |-> G]
          [] v = "derivatives" -> [rows |-> getNumDerivatives(p, s), cols |-> G]
          [] v = "slacks" -> [rows |-> p.numSlacks, cols |-> P]
          [] v = "parameters" -> [rows |-> p.numParameters, cols |-> 1]]

\* initializeBounds: one zero table per block, of the block's shape.
initializeBounds(vars) ==
    [v \in Vars |-> Filled(vars[v].rows, vars[v].cols, 0)]

\* setVariableBounds(var, rows, columns, bounds) on the pair of bound tables.
setVariableBounds(lu, var, rowSet, colSet, bounds) ==
    [lower |-> [lu.lower EXCEPT ![var].data =
                    [q \in DOMAIN @ |->
                        IF q[1] \in rowSet /\ q[2] \in colSet
                        THEN bounds.lower ELSE @[q]]],
     upper |-> [lu.upper EXCEPT ![var].data =
                    [q \in DOMAIN @ |->
                        IF q[1] \in rowSet /\ q[2] \in colSet
                        THEN bounds.upper ELSE @[q]]]]

\* The three calls made for one row of states, controls or multipliers:
\* regular bounds on Slice(1, G - 1), then column 0, then column -1.
setRowBoundsSwapped(lu, var, row, G, info) ==
    LET a == setVariableBounds(lu, var, {row}, Slice(1, G - 1), info.bounds)
        b == setVariableBounds(a, var, {row}, {0}, getFinalBounds(info))
    IN setVariableBounds(b, var, {row}, {WrapIndex(-1, G)},
                         getInitialBounds(info))

setRowBounds(lu, var, row, G, info) ==
    LET a == setVariableBounds(lu, var, {row}, Slice(1, G - 1), info.bounds)
        b == setVariableBounds(a, var, {row}, {0}, getInitialBounds(info))
    IN setVariableBounds(b, var, {row}, {WrapIndex(-1, G)},
                         getFinalBounds(info))

\* The loop over the infos of one block, rows 0 .. n - 1.
RECURSIVE setBlockBounds(_, _, _, _, _)
setBlockBounds(lu, var, row, n, G) ==
    IF row >= n THEN lu
    ELSE setBlockBounds(setRowBounds(lu, var, row, G, getInfo(var, row)),
                        var, row + 1, n, G)

RECURSIVE setSlackBounds(_, _, _, _)
setSlackBounds(lu, row, n, P) ==
    IF row >= n THEN lu
    ELSE setSlackBounds(
            setVariableBounds(lu, "slacks", {row}, Slice(0, P),
                              getInfo("slacks", row).bounds),
            row + 1, n, P)

RECURSIVE setParameterBounds(_, _, _)
setParameterBounds(lu, row, n) ==
    IF row >= n THEN lu
    ELSE setParameterBounds(
            setVariableBounds(lu, "parameters", {row}, {0},
                              getInfo("parameters", row).bounds),
            row + 1, n)

\* All of "Set variable bounds".
setAllBounds(p, s, vars, G, P) ==
    LET z == [lower |-> initializeBounds(vars), upper |-> initializeBounds(vars)]
        a == setVariableBounds(z, "initial_time", {0}, {0}, getTimeInitialBounds)
        b == setVariableBounds(a, "final_time", {0}, {0}, getTimeFinalBounds)
        c == setBlockBounds(b, "states", 0, getNumStates(p), G)
        d == setBlockBounds(c, "controls", 0, p.numControls, G)
        e == setBlockBounds(d, "multipliers", 0, p.numMultipliers, G)
        f == IF s.implicit
             THEN setVariableBounds(e, "derivatives",
                                    Slice(0, vars["derivatives"].rows),
                                    Slice(0, G),
                                    Bounds(-DerivativeBound, DerivativeBound))
             ELSE e
        g == setSlackBounds(f, 0, p.numSlacks, P)
    IN setParameterBounds(g, 0, p.numParameters)


\* ------------------------------------------------------------------------
\* The build steps: the fields each one reads and writes.
\* ------------------------------------------------------------------------
ResidualFields(s) ==
    IF s.implicit
    THEN {"m_constraints.residuals", "m_constraintsLowerBounds.residuals",
          "m_constraintsUpperBounds.residuals"}
    ELSE {}

StepReads(step, s) ==
    CASE step = "sizes" -> {"m_solver", "m_problem"}
      [] step = "layout" ->
            {"m_problem", "m_grid", "m_numGridPoints", "m_numMeshPoints",
             "m_numPointsIgnoringConstraints"}
      [] step = "grid" -> {"m_numGridPoints"}
      [] step = "bounds" -> {"m_problem", "m_solver", "m_vars", "m_numGridPoints"}
      [] step = "objective" ->
            {"m_solver", "m_problem", "m_vars", "m_duration", "m_times",
             "m_gridIndices", "m_paramsTrajGrid"}
      [] step = "xdot" ->
            {"m_problem", "m_solver", "m_numGridPoints",
             "m_numDefectsPerGridPoint", "m_numMeshIntervals", "m_numMeshPoints",
             "m_numPointsIgnoringConstraints", "m_vars", "m_times",
             "m_daeIndices", "m_daeIndicesIgnoringConstraints", "m_paramsTraj",
             "m_paramsTrajIgnoringConstraints"}
            \cup (IF s.implicit THEN {"m_numResiduals"} ELSE {})
      [] step = "defects" ->
            {"m_xdot", "m_vars", "m_times", "m_constraints.defects"}
      [] step = "path" ->
            {"m_problem", "m_vars", "m_times", "m_daeIndices", "m_paramsTraj",
             "m_numMeshPoints"}
      [] step = "guess" ->
            {"m_grid", "m_numGridPoints", "m_numPointsIgnoringConstraints"}
      [] step = "flatten" ->
            {"m_vars", "m_objective", "m_constraints.defects",
             "m_constraints.kinematic", "m_constraints.path"}
            \cup (IF s.implicit THEN {"m_constraints.residuals"} ELSE {})
      [] step = "solver" ->
            {"m_solver", "m_lowerBounds", "m_upperBounds",
             "m_constraintsLowerBounds.defects", "m_constraintsUpperBounds.defects",
             "m_constraintsLowerBounds.kinematic",
             "m_constraintsUpperBounds.kinematic",
             "m_constraintsLowerBounds.path", "m_constraintsUpperBounds.path"}
            \cup (ResidualFields(s) \ {"m_constraints.residuals"})
      [] OTHER -> {}

StepWrites(step, s) ==
    CASE step = "sizes" ->
            {"m_numMeshPoints", "m_numGridPoints", "m_numMeshIntervals",
             "m_numPointsIgnoringConstraints", "m_numDefectsPerGridPoint",
             "m_numResiduals", "m_numConstraints", "m_grid"}
      [] step = "layout" ->
            {"m_vars", "m_duration", "m_times", "m_paramsTrajGrid",
             "m_paramsTraj", "m_paramsTrajIgnoringConstraints"}
      [] step = "grid" ->
            {"m_kinematicConstraintIndices", "m_gridIndices", "m_daeIndices",
             "m_daeIndicesIgnoringConstraints"}
      [] step = "bounds" -> {"m_lowerBounds", "m_upperBounds"}
      [] step = "objective" -> {"m_objective"}
      [] step = "xdot" ->
            {"m_xdot", "m_constraints.defects",
             "m_constraintsLowerBounds.defects", "m_constraintsUpperBounds.defects",
             "m_constraints.kinematic", "m_constraintsLowerBounds.kinematic",
             "m_constraintsUpperBounds.kinematic"}
            \cup ResidualFields(s)
      [] step = "defects" -> {"m_constraints.defects"}
      [] step = "path" ->
            {"m_constraints.path", "m_constraintsLowerBounds.path",
             "m_constraintsUpperBounds.path"}
      [] OTHER -> {}

\* The symbolic objects that transcribe() builds.
SymbolicObjects ==
    {"m_objective", "m_xdot", "m_constraints.defects", "m_constraints.residuals",
     "m_constraints.kinematic", "m_constraints.path"}

\* Running a sequence of steps from the progress record
\* [log, written, readUnwritten].
RECURSIVE RunSteps(_, _, _)
RunSteps(prog, steps, s) ==
    IF steps = <<>> THEN prog
    ELSE RunSteps(
            [log |-> Append(prog.log, Head(steps)),
             written |-> prog.written \cup StepWrites(Head(steps), s),
             readUnwritten |->
                prog.readUnwritten
                \/ ~(StepReads(Head(steps), s) \subseteq prog.written)],
            Tail(steps), s)

\* The order of the steps inside each function.  "layout" is the creation of
\* the variable blocks, "grid" that of the mask and the three index vectors.
\* createVariablesAndSetBounds(): the sizes ("Set the grid"), the variables
\* ("Create variables"), the mask and the index vectors, the bound tables.
createSteps == <<"sizes", "layout", "grid", "bounds">>

\* transcribe() up to the check of NQ against NU, and after it.
transcribeStepsBeforeCheck == <<"objective">>

transcribeStepsAfterCheckDefectsFirst == <<"defects", "xdot", "path">>

transcribeStepsAfterCheck == <<"xdot", "defects", "path">>

\* solve() after transcribe(), up to the slack check, and after it.
solveStepsGuess == <<"guess">>

solveStepsNlp == <<"flatten", "solver">>


\* ------------------------------------------------------------------------
\* The state: one Transcription object, the guess and the outcome of solve().
\* ------------------------------------------------------------------------
VARIABLES
    m_problem, m_solver,            \* the Problem and the Solver configuration
    pc,                             \* where the object is in its life
    m_numMeshPoints, m_numGridPoints, m_numMeshIntervals,
    m_numPointsIgnoringConstraints, m_numDefectsPerGridPoint,
    m_numResiduals, m_numConstraints,
    m_vars,                         \* the shape of every variable block
    m_kinematicConstraintIndices,   \* the mask
    m_gridIndices, m_daeIndices, m_daeIndicesIgnoringConstraints,
    m_lowerBounds, m_upperBounds,   \* block name -> bound table
    m_objective, m_xdot,
    m_constraints, m_constraintsLowerBounds, m_constraintsUpperBounds,
    trajCalls,                      \* the evalOnTrajectory calls of transcribe()
    createLog,                      \* the steps createVariablesAndSetBounds ran
    progress,                       \* [log, written, readUnwritten] of the build
    guess,                          \* the guess as handed to the solver
    raised,                         \* the exception that left solve()/transcribe()
    nlpsolCalls,                    \* number of solver invocations
    reportsPrinted,                 \* number of complete diagnostic reports
    solution,                       \* the Solution that solve() returned
    nlpStats,                       \* nlpFunc.stats() of the last solver call
    fnIn, fnOut                     \* input and result of a function under test

vars ==
    <<m_problem, m_solver, pc, m_numMeshPoints, m_numGridPoints,
      m_numMeshIntervals, m_numPointsIgnoringConstraints,
      m_numDefectsPerGridPoint, m_numResiduals, m_numConstraints, m_vars,
      m_kinematicConstraintIndices, m_gridIndices, m_daeIndices,
      m_daeIndicesIgnoringConstraints, m_lowerBounds, m_upperBounds,
      m_objective, m_xdot, m_constraints, m_constraintsLowerBounds,
      m_constraintsUpperBounds, trajCalls, createLog, progress, guess, raised,
      nlpsolCalls, reportsPrinted, solution, nlpStats, fnIn, fnOut>>

sizeVars ==
    <<m_numMeshPoints, m_numGridPoints, m_numMeshIntervals,
      m_numPointsIgnoringConstraints, m_numDefectsPerGridPoint,
      m_numResiduals, m_numConstraints>>

layoutVars ==
    <<m_vars, m_kinematicConstraintIndices, m_gridIndices, m_daeIndices,
      m_daeIndicesIgnoringConstraints, m_lowerBounds, m_upperBounds, createLog>>

transcribeVars ==
    <<m_objective, m_xdot, m_constraints, m_constraintsLowerBounds,
      m_constraintsUpperBounds, trajCalls>>

solveVars == <<guess, nlpsolCalls, reportsPrinted, solution, nlpStats>>

fnVars == <<fnIn, fnOut>>

NoError == [kind |-> "none"]
NoSolution == [produced |-> FALSE]
NoGuess == [hasSlacks |-> FALSE, given |-> Empty, slacks |-> Empty]
NoStats == [called |-> FALSE, success |-> FALSE]
Unbuilt ==
    [built |-> FALSE, rows |-> 0, cols |-> 0, qdot |-> <<>>, dynamics |-> <<>>]
NoConstraints ==
    [defects |-> Empty, residuals |-> Empty, kinematic |-> Empty, path |-> <<>>]
NoProgress == [log |-> <<>>, written |-> {}, readUnwritten |-> FALSE]
NullProblem ==
    [numCoordinates |-> 0, numSpeeds |-> 0, numAuxiliaryStates |-> 0,
     numControls |-> 0, numMultipliers |-> 0, numParameters |-> 0,
     numSlacks |-> 0, numKinematicConstraintEquations |-> 0,
     pathConstraintSizes |-> <<>>, enforceConstraintDerivatives |-> FALSE]
NullSolver == [meshSize |-> 2, scheme |-> "trapezoidal", implicit |-> FALSE]

\* The object as the base-class constructor leaves it: the references to the
\* Solver and the Problem are set, the matrices are default-constructed.
ObjectInit ==
    /\ m_numMeshPoints = 0
    /\ m_numGridPoints = 0
    /\ m_numMeshIntervals = 0
    /\ m_numPointsIgnoringConstraints = 0
    /\ m_numDefectsPerGridPoint = 0
    /\ m_numResiduals = 0
    /\ m_numConstraints = 0
    /\ m_vars = [v \in Vars |-> [rows |-> 0, cols |-> 0]]
    /\ m_kinematicConstraintIndices = <<>>
    /\ m_gridIndices = <<>>
    /\ m_daeIndices = <<>>
    /\ m_daeIndicesIgnoringConstraints = <<>>
    /\ m_lowerBounds = [v \in Vars |-> Empty]
    /\ m_upperBounds = [v \in Vars |-> Empty]
    /\ m_objective = [built |-> FALSE, terms |-> <<>>]
    /\ m_xdot = Unbuilt
    /\ m_constraints = NoConstraints
    /\ m_constraintsLowerBounds = NoConstraints
    /\ m_constraintsUpperBounds = NoConstraints
    /\ trajCalls = <<>>
    /\ createLog = <<>>
    /\ progress = [NoProgress EXCEPT !.written = {"m_solver", "m_problem"}]
    /\ guess = NoGuess
    /\ raised = NoError
    /\ nlpsolCalls = 0
    /\ reportsPrinted = 0
    /\ solution = NoSolution
    /\ nlpStats = NoStats

Init ==
    /\ m_problem \in Problems
    /\ m_solver \in Solvers
    /\ pc = "constructed"
    /\ ObjectInit
    /\ fnIn = <<>>
    /\ fnOut = <<>>

\* ------------------------------------------------------------------------
\* createVariablesAndSetBounds(grid, numDefectsPerGridPoint), called by the
\* constructor of the scheme.
\* ------------------------------------------------------------------------
CreateVariablesAndSetBounds ==
    /\ pc = "constructed"
    /\ LET M == m_solver.meshSize
           G == createGridSize(m_solver.scheme, M)
           P == G - M
           Nd == numDefectsPerGridPoint(m_solver.scheme, getNumStates(m_problem))
           mask == createKinematicConstraintIndices(m_solver.scheme, M)
           part == partitionIndices(mask)
           shapes == createVariables(m_problem, m_solver, G, P)
           lu == setAllBounds(m_problem, m_solver, shapes, G, P)
           prog == RunSteps(progress, createSteps, m_solver)
       IN /\ m_numMeshPoints' = M
          /\ m_numGridPoints' = G
          /\ m_numMeshIntervals' = M - 1
          /\ m_numPointsIgnoringConstraints' = P
          /\ m_numDefectsPerGridPoint' = Nd
          /\ m_numResiduals' = numResiduals(m_problem, m_solver)
          /\ m_numConstraints' = numConstraints(m_problem, m_solver, G, Nd)
          /\ m_constraints' =
                [m_constraints EXCEPT
                    !.path = [i \in 1 .. Len(m_problem.pathConstraintSizes) |->
                                Empty]]
          /\ m_vars' = shapes
          /\ m_kinematicConstraintIndices' = mask
          /\ m_gridIndices' = iota(G)
          /\ m_daeIndices' = part.dae
          /\ m_daeIndicesIgnoringConstraints' = part.iic
          /\ m_lowerBounds' = lu.lower
          /\ m_upperBounds' = lu.upper
          /\ createLog' = prog.log
          /\ progress' = [prog EXCEPT !.log = <<>>]
    /\ pc' = "ready"
    /\ UNCHANGED <<m_problem, m_solver, m_objective, m_xdot, trajCalls,
                   m_constraintsLowerBounds, m_constraintsUpperBounds, raised>>
    /\ UNCHANGED solveVars
    /\ UNCHANGED fnVars


\* ------------------------------------------------------------------------
\* transcribe()
\* ------------------------------------------------------------------------
\* Per-row bounds of path constraint ipc (0-based), row r.
pathLowerBound(ipc, r) == -(10 * ipc + r + 1)
pathUpperBound(ipc, r) == 10 * ipc + r + 2

\* DM::repmat(info.lowerBounds, 1, M): the column of row bounds, M times.
repmatPathBounds(ipc, size, M, upper) ==
    [rows |-> size, cols |-> M,
     data |-> [q \in (0 .. size - 1) \X (0 .. M - 1) |->
                IF upper THEN pathUpperBound(ipc, q[1])
                ELSE pathLowerBound(ipc, q[1])]]

\* OPENSIM_THROW_IF(NQ != NU, ...)
coordinatesDifferFromSpeedsNever(p) == FALSE

coordinatesDifferFromSpeeds(p) == p.numCoordinates # p.numSpeeds

\* The bound tables of the defects: zeros, one column per mesh interval.
defectBounds(Nd, I) == Filled(Nd, I, 0)

\* The bound tables of the residuals: zeros, one column per grid point.
residualBounds(NR, G, M) == Filled(NR, G, 0)

\* The bound tables of the kinematic constraints: the Problem's bound on every
\* entry, one column per mesh point.
kinematicBoundsLowerOnly(K, M, upper) ==
    Filled(K, M, getKinematicConstraintBounds.lower)

kinematicBounds(K, M, upper) ==
    Filled(K, M, IF upper THEN getKinematicConstraintBounds.upper
                 ELSE getKinematicConstraintBounds.lower)

\* if (m_problem.getEnforceConstraintDerivatives() &&
\*         m_numPointsIgnoringConstraints)
velocityCorrectedIfEnforced(p, P) == p.enforceConstraintDerivatives

velocityCorrected(p, P) == p.enforceConstraintDerivatives /\ P /= 0

\* An assignment "x = e": what x held before is dropped.
assignedAlsoKeepingOld(old, new) == old \o new

assigned(old, new) == new

\* The position (0-based) of grid column c in an index vector, -1 if absent.
positionIn(indices, c) ==
    IF \E k \in DOMAIN indices : indices[k] = c
    THEN (CHOOSE k \in DOMAIN indices : indices[k] = c) - 1
    ELSE -1

\* Rows 0..NQ-1 of m_xdot as expressions.  Entry (r, c) is speed row NQ + r of
\* the states at column c; where the velocity correction was added it also
\* names the entry <<row, column>> of uCorr (uCorr has one column per IIC
\* index); "added" counts the "+=" made on the entry since m_xdot was
\* allocated and the speeds assigned.
qdot(p, G, P, iic) ==
    LET NQ == p.numCoordinates
    IN [e \in (0 .. NQ - 1) \X (0 .. G - 1) |->
          [state |-> NQ + e[1], col |-> e[2],
           uCorr |-> IF velocityCorrected(p, P) /\ positionIn(iic, e[2]) >= 0
                     THEN <<e[1], positionIn(iic, e[2])>>
                     ELSE <<>>,
           added |-> IF velocityCorrected(p, P) /\ positionIn(iic, e[2]) >= 0
                     THEN 1 ELSE 0]]

\* The index vectors evalOnTrajectory accepts: members of the object.
MemberIndexVectors ==
    {"m_gridIndices", "m_daeIndices", "m_daeIndicesIgnoringConstraints"}

\* The entries of the member a reference names.
memberValue(ref) ==
    CASE ref = "m_gridIndices" -> m_gridIndices
      [] ref = "m_daeIndices" -> m_daeIndices
      [] ref = "m_daeIndicesIgnoringConstraints" ->
            m_daeIndicesIgnoringConstraints

\* m_paramsTrajGrid, m_paramsTraj, m_paramsTrajIgnoringConstraints:
\* MX::repmat(m_vars[parameters], 1, width)
paramsTraj(width) == [rows |-> m_vars["parameters"].rows, cols |-> width]

\* The parameter trajectory evalOnTrajectory picks for an index vector.
paramsTrajGridAlways(ref) == paramsTraj(m_numGridPoints)

paramsTrajFor(ref) ==
    CASE ref = "m_gridIndices" -> paramsTraj(m_numGridPoints)
      [] ref = "m_daeIndices" -> paramsTraj(m_numMeshPoints)
      [] ref = "m_daeIndicesIgnoringConstraints" ->
            paramsTraj(m_numPointsIgnoringConstraints)

\* The number of columns of every entry of mxIn, in order: the time row
\* m_times(timeIndices), one block per requested input (the slacks whole, the
\* others at the columns timeIndices), the parameter trajectory.
mxInColumns(inputs, ref) ==
    LET n == Len(memberValue(ref))
    IN <<n>>
       \o [i \in 1 .. Len(inputs) |->
             IF inputs[i] = "slacks" THEN m_vars["slacks"].cols ELSE n]
       \o <<paramsTrajFor(ref).cols>>

\* The calls of evalOnTrajectory one transcribe() makes, in order, each with
\* the point function, the inputs requested, the member index vector it is
\* given and the columns of the inputs handed to the mapped function.
transcribeCalls(p, s, P) ==
    LET call(f, inputs, idx) ==
            [function |-> f, timeIndices |-> idx, inputs |-> inputs,
             columns |-> mxInColumns(inputs, idx)]
        all == <<"states", "controls", "multipliers", "derivatives">>
        cost == <<call("IntegralCostIntegrand", all, "m_gridIndices")>>
        corr == IF velocityCorrected(p, P)
                THEN <<call("VelocityCorrection",
                            <<"multibody_states", "slacks">>,
                            "m_daeIndicesIgnoringConstraints")>>
                ELSE <<>>
        system == IF s.implicit THEN "ImplicitMultibodySystem"
                  ELSE "MultibodySystem"
        dae == <<call(system, all, "m_daeIndices")>>
        ignoring == IF P /= 0
                    THEN <<call(system \o "IgnoringConstraints", all,
                                "m_daeIndicesIgnoringConstraints")>>
                    ELSE <<>>
        path == [i \in 1 .. Len(p.pathConstraintSizes) |->
                    call("PathConstraint", all, "m_daeIndices")]
    IN IF coordinatesDifferFromSpeeds(p) THEN cost
       ELSE cost \o corr \o dae \o ignoring \o path

\* if (m_numPointsIgnoringConstraints): the second evaluation of the dynamics,
\* at the points where the algebraic constraints are ignored.
ignoringConstraintsEvaluatedNever(P) == FALSE

ignoringConstraintsEvaluated(P) == P /= 0

\* The assignments of the "udot, zdot, residual, kcerr" part of transcribe(),
\* in order.  Each names the block written, the rows and the columns (an
\* index vector) it writes, and where the values come from: the derivative
\* variables or a point function evaluated by evalOnTrajectory.
dynamicsWrites(p, s, G, M, P, dae, iic) ==
    LET NQ == p.numCoordinates
        NU == p.numSpeeds
        NS == getNumStates(p)
        NR == numResiduals(p, s)
        K == p.numKinematicConstraintEquations
        write(block, first, last, cols, source) ==
            [block |-> block, rows |-> first .. last - 1, cols |-> cols,
             source |-> source]
        system == IF s.implicit THEN "ImplicitMultibodySystem"
                  ELSE "MultibodySystem"
        ignoring == system \o "IgnoringConstraints"
    IN IF s.implicit
       THEN <<write("xdot", NQ, NQ + NU, iota(G), "derivatives"),
              write("residuals", 0, NR, dae, system),
              write("xdot", NQ + NU, NS, dae, system),
              write("kinematic", 0, K, iota(M), system)>>
            \o (IF ignoringConstraintsEvaluated(P)
                THEN <<write("residuals", 0, NR, iic, ignoring),
                       write("xdot", NQ + NU, NS, iic, ignoring)>>
                ELSE <<>>)
       ELSE <<write("xdot", NQ, NQ + NU, dae, system),
              write("xdot", NQ + NU, NS, dae, system),
              write("kinematic", 0, K, iota(M), system)>>
            \o (IF ignoringConstraintsEvaluated(P)
                THEN <<write("xdot", NQ, NQ + NU, iic, ignoring),
                       write("xdot", NQ + NU, NS, iic, ignoring)>>
                ELSE <<>>)

\* The sources assigned to entry (r, c) of a block, in the order of the
\* assignments; the empty sequence for an entry that is allocated and never
\* assigned.
writersOf(writes, block, r, c) ==
    LET hit == SelectSeq(writes,
                   LAMBDA w : /\ w.block = block
                              /\ r \in w.rows
                              /\ \E k \in DOMAIN w.cols : w.cols[k] = c)
    IN [i \in 1 .. Len(hit) |-> hit[i].source]

\* A block of expressions after the assignments: every entry holds the
\* sources assigned to it.
writtenBlock(writes, block, rowSet, rows, cols) ==
    [rows |-> rows, cols |-> cols,
     data |-> [e \in rowSet \X (0 .. cols - 1) |->
                  writersOf(writes, block, e[1], e[2])]]

\* The blocks and tables transcribe() leaves behind when it does not throw.
\* "upper" selects the upper bound tables, "symbolic" the blocks themselves
\* (their entries are expressions: the shape is kept and, for the residual
\* and kinematic blocks, the sources assigned to each entry).
transcribedConstraints(old, upper, symbolic) ==
    LET K == m_problem.numKinematicConstraintEquations
        sizes == m_problem.pathConstraintSizes
        shape(t) == IF symbolic THEN Filled(t.rows, t.cols, "expr") ELSE t
        writes == dynamicsWrites(m_problem, m_solver, m_numGridPoints,
                                 m_numMeshPoints,
                                 m_numPointsIgnoringConstraints, m_daeIndices,
                                 m_daeIndicesIgnoringConstraints)
        written(block, t) ==
            IF symbolic
            THEN writtenBlock(writes, block, 0 .. t.rows - 1, t.rows, t.cols)
            ELSE t
    IN [defects |->
            shape(defectBounds(m_numDefectsPerGridPoint, m_numMeshIntervals)),
        residuals |->
            IF m_solver.implicit
            THEN written("residuals",
                         residualBounds(m_numResiduals, m_numGridPoints,
                                        m_numMeshPoints))
            ELSE old.residuals,
        kinematic |->
            written("kinematic", kinematicBounds(K, m_numMeshPoints, upper)),
        path |->
            [i \in 1 .. Len(sizes) |->
                shape(repmatPathBounds(i - 1, sizes[i], m_numMeshPoints, upper))]]

\* The steps one call of transcribe() runs, from the progress record prog0.
transcribeProgress(prog0) ==
    LET before == RunSteps(prog0, transcribeStepsBeforeCheck, m_solver)
    IN IF coordinatesDifferFromSpeeds(m_problem) THEN before
       ELSE RunSteps(before, transcribeStepsAfterCheck, m_solver)

\* What one call of transcribe() does to the fields it writes.
TranscribeEffect ==
    LET prog == transcribeProgress([progress EXCEPT !.log = <<>>])
    IN /\ m_objective' =
            IF "objective" \in {prog.log[i] : i \in DOMAIN prog.log}
            THEN [built |-> TRUE,
                  terms |-> assigned(m_objective.terms,
                                     <<"integralCost", "endpointCost">>)]
            ELSE m_objective
       /\ trajCalls' = transcribeCalls(m_problem, m_solver,
                                       m_numPointsIgnoringConstraints)
       /\ IF coordinatesDifferFromSpeeds(m_problem)
          THEN UNCHANGED <<m_xdot, m_constraints, m_constraintsLowerBounds,
                           m_constraintsUpperBounds>>
          ELSE /\ m_xdot' = [built |-> TRUE, rows |-> getNumStates(m_problem),
                             cols |-> m_numGridPoints,
                             qdot |-> qdot(m_problem, m_numGridPoints,
                                           m_numPointsIgnoringConstraints,
                                           m_daeIndicesIgnoringConstraints),
                             dynamics |->
                                writtenBlock(
                                    dynamicsWrites(
                                        m_problem, m_solver, m_numGridPoints,
                                        m_numMeshPoints,
                                        m_numPointsIgnoringConstraints,
                                        m_daeIndices,
                                        m_daeIndicesIgnoringConstraints),
                                    "xdot",
                                    m_problem.numCoordinates
                                        .. getNumStates(m_problem) - 1,
                                    getNumStates(m_problem),
                                    m_numGridPoints).data]
               /\ m_constraints' =
                    transcribedConstraints(m_constraints, FALSE, TRUE)
               /\ m_constraintsLowerBounds' =
                    transcribedConstraints(m_constraintsLowerBounds, FALSE, FALSE)
               /\ m_constraintsUpperBounds' =
                    transcribedConstraints(m_constraintsUpperBounds, TRUE, FALSE)

TranscribeBody ==
    /\ pc \in {"ready", "transcribed"}
    /\ TranscribeEffect
    /\ progress' = transcribeProgress([progress EXCEPT !.log = <<>>])
    /\ IF coordinatesDifferFromSpeeds(m_problem)
       THEN /\ pc' = "thrown"
            /\ raised' = [kind |-> "NQ != NU"]
       ELSE /\ pc' = "transcribed"
            /\ UNCHANGED raised
    /\ UNCHANGED <<m_problem, m_solver>>
    /\ UNCHANGED sizeVars
    /\ UNCHANGED layoutVars
    /\ UNCHANGED solveVars

Transcribe ==
    /\ TranscribeBody
    /\ UNCHANGED fnVars

\* ------------------------------------------------------------------------
\* solve(guess)
\* ------------------------------------------------------------------------
\* A slack table of the guess: entry (r, c) holds its own position, so that a
\* column can be recognised after the reshaping.
guessSlacks(rows, w) ==
    [rows |-> rows, cols |-> w,
     data |-> [q \in (0 .. rows - 1) \X (0 .. w - 1) |-> q]]

\* The guesses offered to solve(): no slacks block, or one of these widths.
Guesses ==
    {NoGuess} \cup
    {[hasSlacks |-> TRUE, given |-> guessSlacks(m_problem.numSlacks, w),
      slacks |-> guessSlacks(m_problem.numSlacks, w)] :
        w \in {0, 1, m_numPointsIgnoringConstraints, m_numGridPoints,
               m_numGridPoints + 1}}

\* The loop collecting the columns to remove: those where the mask is nonzero.
RECURSIVE columnsToRemoveZeroFrom(_, _, _)
columnsToRemoveZeroFrom(mask, itime, G) ==
    IF itime >= G THEN <<>>
    ELSE (IF mask[itime + 1] = 0 THEN <<itime>> ELSE <<>>)
         \o columnsToRemoveZeroFrom(mask, itime + 1, G)

RECURSIVE columnsToRemoveFrom(_, _, _)
columnsToRemoveFrom(mask, itime, G) ==
    IF itime >= G THEN <<>>
    ELSE (IF mask[itime + 1] # 0 THEN <<itime>> ELSE <<>>)
         \o columnsToRemoveFrom(mask, itime + 1, G)

slackColumnsToRemoveZero(mask, G) == columnsToRemoveZeroFrom(mask, 0, G)

slackColumnsToRemove(mask, G) == columnsToRemoveFrom(mask, 0, G)

\* DM::remove({}, columns): the matrix without these columns, the others in
\* their order.
remove(t, columns) ==
    LET gone == {columns[i] : i \in DOMAIN columns}
        kept == SelectSeq(iota(t.cols), LAMBDA c : c \notin gone)
    IN [rows |-> t.rows, cols |-> Len(kept),
        data |-> [q \in (0 .. t.rows - 1) \X (0 .. Len(kept) - 1) |->
                    t.data[<<q[1], kept[q[2] + 1]>>]]]

\* The adjustment of the guess's slacks: only a table as wide as the grid is
\* touched.
adjustSlacks(slacks, scheme, M, G) ==
    IF slacks.cols = G
    THEN remove(slacks,
                slackColumnsToRemove(
                    createKinematicConstraintIndices(scheme, M), G))
    ELSE slacks

\* OPENSIM_THROW_IF(slacks.size2() != m_numPointsIgnoringConstraints, ...)
slackLengthWrongNever(slacks, P) == FALSE

slackLengthWrong(slacks, P) == slacks.cols # P

\* printConstraintValues(): how the report ends.  "printed": the report is
\* complete; "throws": an indexed access outside a matrix throws;
\* "undefined": a name is read past the end of its list.
reportOutcomes(p, s, G, P, M, Nd) ==
    LET NS == getNumStates(p)
        K == p.numKinematicConstraintEquations
        \* rows of controls, multipliers or derivatives printed with state_names
        namesEarly == p.numControls > NS \/ p.numMultipliers > NS
                      \/ getNumDerivatives(p, s) > NS
        \* the slack tables have P columns and are indexed up to times.numel()
        slackThrows == p.numSlacks >= 1 /\ P < G
        \* the defect loop runs over state_names and indexes the defect rows
        defectThrows == NS > Nd \/ (NS >= 1 /\ M - 1 = 0)
        \* kinematic rows are labelled with the multiplier names
        namesKinematic == K > p.numMultipliers
        \* the value table runs over the multiplier names and indexes the rows
        kinematicThrows == p.numMultipliers > K /\ M >= 1
        throws == slackThrows \/ defectThrows \/ kinematicThrows
    IN {IF throws THEN "throws" ELSE "printed"}
       \cup (IF namesEarly \/ (~slackThrows /\ ~defectThrows /\ namesKinematic)
             THEN {"undefined"} ELSE {})

Solve ==
    /\ pc \in {"ready", "transcribed"}
    /\ TranscribeEffect
    /\ \E g \in Guesses, success \in BOOLEAN,
          outcome \in reportOutcomes(m_problem, m_solver, m_numGridPoints,
                                     m_numPointsIgnoringConstraints,
                                     m_numMeshPoints, m_numDefectsPerGridPoint) :
        LET prog1 == transcribeProgress([progress EXCEPT !.log = <<>>])
            prog2 == RunSteps(prog1, solveStepsGuess, m_solver)
            prog3 == RunSteps(prog2, solveStepsNlp, m_solver)
            adjusted ==
                IF g.hasSlacks
                THEN [g EXCEPT !.slacks =
                        adjustSlacks(g.slacks, m_solver.scheme, m_numMeshPoints,
                                     m_numGridPoints)]
                ELSE g
        IN IF coordinatesDifferFromSpeeds(m_problem)
           THEN /\ pc' = "thrown"
                /\ raised' = [kind |-> "NQ != NU"]
                /\ progress' = prog1
                /\ UNCHANGED solveVars
           ELSE IF g.hasSlacks
                   /\ slackLengthWrong(adjusted.slacks,
                                       m_numPointsIgnoringConstraints)
           THEN /\ pc' = "thrown"
                /\ raised' = [kind |-> "slack length",
                              expected |-> m_numPointsIgnoringConstraints,
                              actual |-> adjusted.slacks.cols]
                /\ progress' = prog2
                /\ guess' = adjusted
                /\ UNCHANGED <<nlpsolCalls, reportsPrinted, solution, nlpStats>>
           ELSE /\ progress' = prog3
                /\ guess' = adjusted
                /\ nlpsolCalls' = nlpsolCalls + 1
                /\ nlpStats' = [called |-> TRUE, success |-> success]
                /\ IF success \/ outcome = "printed"
                   THEN /\ pc' = "solved"
                        /\ UNCHANGED raised
                        /\ solution' = [produced |-> TRUE,
                                        variables |-> m_vars,
                                        stats |-> [success |-> success]]
                        /\ reportsPrinted' =
                            IF success THEN reportsPrinted
                            ELSE reportsPrinted + 1
                   ELSE /\ pc' = IF outcome = "throws" THEN "thrown"
                                 ELSE "undefined"
                        /\ raised' = IF outcome = "throws"
                                     THEN [kind |-> "out of range"]
                                     ELSE raised
                        /\ solution' = NoSolution
                        /\ UNCHANGED reportsPrinted
    /\ UNCHANGED <<m_problem, m_solver>>
    /\ UNCHANGED sizeVars
    /\ UNCHANGED layoutVars
    /\ UNCHANGED fnVars

Next ==
    \/ CreateVariablesAndSetBounds
    \/ Transcribe
    \/ Solve

Spec == Init /\ [][Next]_vars

\* ------------------------------------------------------------------------
\* The index partition on its own: every 0/1 mask of up to MaxMaskLen entries.
\* ------------------------------------------------------------------------
Masks == UNION {[1 .. n -> {0, 1}] : n \in 0 .. MaxMaskLen}

InitMask ==
    /\ m_problem = NullProblem
    /\ m_solver = NullSolver
    /\ pc = "mask"
    /\ ObjectInit
    /\ fnIn \in Masks
    /\ fnOut = <<>>

\* Lines 79-102 of createVariablesAndSetBounds() on the mask fnIn.
MakeIndices ==
    /\ pc = "mask"
    /\ pc' = "indices"
    /\ m_kinematicConstraintIndices' = fnIn
    /\ m_gridIndices' = iota(Len(fnIn))
    /\ m_daeIndices' = partitionIndices(fnIn).dae
    /\ m_daeIndicesIgnoringConstraints' = partitionIndices(fnIn).iic
    /\ fnOut' = partitionIndices(fnIn)
    /\ UNCHANGED <<m_problem, m_solver, m_vars, m_lowerBounds, m_upperBounds,
                   createLog, progress, raised, fnIn>>
    /\ UNCHANGED sizeVars
    /\ UNCHANGED transcribeVars
    /\ UNCHANGED solveVars

NextMask == MakeIndices

SpecMask == InitMask /\ [][NextMask]_vars


\* ------------------------------------------------------------------------
\* setObjective() on its own.  The integrand l, the quadrature coefficients
\* q and the endpoint cost are outputs of functions of the Problem and of the
\* scheme; here they are values at one point of the decision variables.
\* Coefficients are integers (a common denominator is factored out).
\* ------------------------------------------------------------------------
objectVars ==
    <<m_problem, m_solver, sizeVars, layoutVars, transcribeVars, solveVars,
      progress, raised>>

IntegrandValues == {0, 1}
QuadValues == {1, 2}
MultiplierValues == {-1, 2}
Weights == {0, 3}
EndpointCosts == {0, 5}
TimePairs == {<<0, 3>>, <<1, 3>>}

ObjectiveInputs ==
    UNION {
        [numGridPoints : {G},
         numMultipliers : {NM},
         times : TimePairs,
         quadCoeffs : [1 .. G -> QuadValues],
         integrand : [1 .. G -> IntegrandValues],
         mults : [(1 .. NM) \X (1 .. G) -> MultiplierValues],
         minimizeLagrangeMultipliers : BOOLEAN,
         lagrangeMultiplierWeight : Weights,
         endpointCost : EndpointCosts]
        : G \in 1 .. MaxObjGrid, NM \in 0 .. MaxCount}

\* m_duration = m_vars[final_time] - m_vars[initial_time]
duration(in) == in.times[2] - in.times[1]

\* dot(quadCoeffs.T(), integrandTraj)
dot(a, b) == SumSeq([g \in DOMAIN a |-> a[g] * b[g]])

\* MX::sum1(MX::sq(mults)): per column, the sum over the rows of the squares.
sum1sq(in) ==
    [g \in 1 .. in.numGridPoints |->
        SumSeq([r \in 1 .. in.numMultipliers |->
                    in.mults[<<r, g>>] * in.mults[<<r, g>>]])]

\* if (m_solver.getMinimizeLagrangeMultipliers() && m_problem.getNumMultipliers())
multipliersMinimizedIfPresent(in) == in.numMultipliers /= 0

multipliersMinimized(in) ==
    in.minimizeLagrangeMultipliers /\ in.numMultipliers /= 0

\* integrandTraj after "integrandTraj += multiplierWeight * sum1(sq(mults))"
integrandTraj(in) ==
    [g \in 1 .. in.numGridPoints |->
        in.integrand[g]
        + (IF multipliersMinimized(in)
           THEN in.lagrangeMultiplierWeight * sum1sq(in)[g]
           ELSE 0)]

setObjectiveTermOutside(in) ==
    [value |-> duration(in) * dot(in.quadCoeffs, in.integrand)
               + in.endpointCost
               + (IF multipliersMinimized(in)
                  THEN in.lagrangeMultiplierWeight * SumSeq(sum1sq(in))
                  ELSE 0),
     regularized |-> multipliersMinimized(in)]

\* m_objective = m_duration * dot(quadCoeffs.T(), integrandTraj) + endpointCost
setObjective(in) ==
    [value |-> duration(in) * dot(in.quadCoeffs, integrandTraj(in))
               + in.endpointCost,
     regularized |-> multipliersMinimized(in)]

InitObjective ==
    /\ m_problem = NullProblem
    /\ m_solver = NullSolver
    /\ pc = "objective inputs"
    /\ ObjectInit
    /\ fnIn \in ObjectiveInputs
    /\ fnOut = <<>>

SetObjective ==
    /\ pc = "objective inputs"
    /\ pc' = "objective"
    /\ fnOut' = setObjective(fnIn)
    /\ UNCHANGED objectVars
    /\ UNCHANGED fnIn

NextObjective == SetObjective

SpecObjective == InitObjective /\ [][NextObjective]_vars

\* ------------------------------------------------------------------------
\* evalOnTrajectory(pointFunction, inputs, timeIndices) on a created object.
\* timeIndices is a reference: the callee sees which object it is (its
\* address) and its entries.
\* ------------------------------------------------------------------------
\* Index vectors that are not members: a copy of each member, a vector of one
\* valid column that is none of the three, and a vector with a column past
\* the grid.
OtherIndexVectors ==
    {memberValue(ref) : ref \in MemberIndexVectors}
    \cup {<<m_numGridPoints - 1>>, <<m_numGridPoints>>}

\* The callers pass a non-empty vector: IIC is used only under
\* "if (m_numPointsIgnoringConstraints)".
TimeIndexArguments ==
    {a \in {[object |-> ref, entries |-> memberValue(ref)] :
                ref \in MemberIndexVectors}
            \cup {[object |-> "local", entries |-> v] : v \in OtherIndexVectors} :
        a.entries /= <<>>}

\* m_times(timeIndices) and the column selections: casadi rejects an index
\* outside -G .. G-1.
indexOutOfRange(entries, G) ==
    \E k \in DOMAIN entries : entries[k] < -G \/ entries[k] >= G

evalOnTrajectoryByValue(timeIndices) ==
    IF indexOutOfRange(timeIndices.entries, m_numGridPoints)
    THEN [raised |-> "out of range"]
    ELSE IF timeIndices.entries = m_gridIndices
    THEN [raised |-> "none", mapped |-> Len(timeIndices.entries),
          params |-> paramsTraj(m_numGridPoints)]
    ELSE IF timeIndices.entries = m_daeIndices
    THEN [raised |-> "none", mapped |-> Len(timeIndices.entries),
          params |-> paramsTraj(m_numMeshPoints)]
    ELSE IF timeIndices.entries = m_daeIndicesIgnoringConstraints
    THEN [raised |-> "none", mapped |-> Len(timeIndices.entries),
          params |-> paramsTraj(m_numPointsIgnoringConstraints)]
    ELSE [raised |-> "Internal error."]

\* if (&timeIndices == &m_gridIndices) ... else OPENSIM_THROW("Internal error.")
evalOnTrajectory(timeIndices) ==
    IF indexOutOfRange(timeIndices.entries, m_numGridPoints)
    THEN [raised |-> "out of range"]
    ELSE IF timeIndices.object = "m_gridIndices"
    THEN [raised |-> "none", mapped |-> Len(timeIndices.entries),
          params |-> paramsTraj(m_numGridPoints)]
    ELSE IF timeIndices.object = "m_daeIndices"
    THEN [raised |-> "none", mapped |-> Len(timeIndices.entries),
          params |-> paramsTraj(m_numMeshPoints)]
    ELSE IF timeIndices.object = "m_daeIndicesIgnoringConstraints"
    THEN [raised |-> "none", mapped |-> Len(timeIndices.entries),
          params |-> paramsTraj(m_numPointsIgnoringConstraints)]
    ELSE [raised |-> "Internal error."]

\* Problems that differ in the parameters only.
InitEval ==
    /\ m_problem \in {p \in Problems :
                        ProblemTotal(p) = p.numParameters
                        /\ ~p.enforceConstraintDerivatives}
    /\ m_solver \in Solvers
    /\ pc = "constructed"
    /\ ObjectInit
    /\ fnIn = <<>>
    /\ fnOut = <<>>

EvalOnTrajectory ==
    /\ pc = "ready"
    /\ pc' = "evaluated"
    /\ \E timeIndices \in TimeIndexArguments :
        /\ fnIn' = timeIndices
        /\ fnOut' = evalOnTrajectory(timeIndices)
    /\ UNCHANGED objectVars

NextEval ==
    \/ CreateVariablesAndSetBounds
    \/ EvalOnTrajectory

SpecEval == InitEval /\ [][NextEval]_vars

\* ------------------------------------------------------------------------
\* The times of a Solution.  The normalized grid tau runs from 0 to 1; it is
\* kept as integer numerators over the denominator GridDenominator, and times
\* are in units of 1/GridDenominator.
\* ------------------------------------------------------------------------
GridDenominator == MaxTimesGrid

\* The grids of a scheme on a mesh: strictly increasing from 0 to 1.
NormalizedGrids ==
    UNION {{g \in [1 .. G -> 0 .. GridDenominator] :
                /\ g[1] = 0
                /\ g[G] = GridDenominator
                /\ \A k \in 1 .. G - 1 : g[k] < g[k + 1]}
           : G \in 2 .. MaxTimesGrid}

\* The values the solver returns for initial_time and final_time.
SolverTimes == -1 .. 2

\* createTimes(initialTime, finalTime) =
\*     (finalTime - initialTime) * m_grid + initialTime
createTimes(initialTime, finalTime, grid) ==
    [k \in DOMAIN grid |->
        (finalTime - initialTime) * grid[k] + initialTime * GridDenominator]

solutionTimesSwapped(variables, grid) ==
    createTimes(variables.final_time, variables.initial_time, grid)

\* solution.times = createTimes(solution.variables[initial_time],
\*                              solution.variables[final_time])
solutionTimes(variables, grid) ==
    createTimes(variables.initial_time, variables.final_time, grid)

InitTimes ==
    /\ m_problem = NullProblem
    /\ m_solver = NullSolver
    /\ pc = "solver returned"
    /\ ObjectInit
    /\ fnIn \in [grid : NormalizedGrids,
                 initial_time : SolverTimes, final_time : SolverTimes]
    /\ fnOut = <<>>

\* The part of solve() that fills the Solution from the solver's x.
CreateSolution ==
    /\ pc = "solver returned"
    /\ pc' = "solution"
    /\ fnOut' = [variables |-> [initial_time |-> fnIn.initial_time,
                                final_time |-> fnIn.final_time],
                 times |-> solutionTimes(fnIn, fnIn.grid)]
    /\ UNCHANGED objectVars
    /\ UNCHANGED fnIn

NextTimes == CreateSolution

SpecTimes == InitTimes /\ [][NextTimes]_vars

\* ------------------------------------------------------------------------
\* createInitialGuessFromBounds().  A double is [inf |-> -1, 0 or 1, v |-> n]:
\* minus infinity, the finite value n, or plus infinity.  The finite bounds
\* offered are even, so that halving their sum is exact.
\* ------------------------------------------------------------------------
Finite(n) == [inf |-> 0, v |-> n]
NegativeInfinity == [inf |-> -1, v |-> 0]
PositiveInfinity == [inf |-> 1, v |-> 0]

\* std::isinf
isinf(x) == x.inf /= 0

LowerBoundValues == {NegativeInfinity, Finite(0), Finite(2)}
UpperBoundValues == {PositiveInfinity, Finite(2), Finite(4)}

\* The bound tables of a problem with one state and nothing else, on a grid of
\* two points: initial_time and final_time are 1 x 1, states is 1 x 2, the
\* other blocks have no rows.
GuessShape(var) ==
    CASE var \in {"initial_time", "final_time"} -> <<1, 1>>
      [] var = "states" -> <<1, 2>>
      [] OTHER -> <<0, 2>>

\* Every assignment of the values to the cells of the blocks.
GuessCells ==
    {<<v, r, c>> \in Vars \X {0} \X {0, 1} :
        r < GuessShape(v)[1] /\ c < GuessShape(v)[2]}

BoundTables(values) ==
    {[v \in Vars |->
        [rows |-> GuessShape(v)[1], cols |-> GuessShape(v)[2],
         data |-> [e \in (0 .. GuessShape(v)[1] - 1)
                          \X (0 .. GuessShape(v)[2] - 1) |->
                      cell[<<v, e[1], e[2]>>]]]]
     : cell \in [GuessCells -> values]}

setToMidpointNoFallback(lower, upper) ==
    IF ~isinf(lower) /\ ~isinf(upper)
    THEN Finite((upper.v + lower.v) \div 2)
    ELSE Finite(0)

\* The body of the loops of the setToMidpoint lambda, for one cell.
setToMidpoint(lower, upper) ==
    IF ~isinf(lower) /\ ~isinf(upper)
    THEN Finite((upper.v + lower.v) \div 2)
    ELSE IF ~isinf(lower) THEN lower
    ELSE IF ~isinf(upper) THEN upper
    ELSE Finite(0)

createInitialGuessFromBounds(lowerBounds, upperBounds, grid) ==
    LET variables ==
            [v \in DOMAIN lowerBounds |->
                [lowerBounds[v] EXCEPT !.data =
                    [e \in DOMAIN lowerBounds[v].data |->
                        setToMidpoint(lowerBounds[v].data[e],
                                      upperBounds[v].data[e])]]]
    IN [variables |-> variables,
        times |-> createTimes(variables["initial_time"].data[<<0, 0>>].v,
                              variables["final_time"].data[<<0, 0>>].v, grid)]

InitGuess ==
    /\ m_problem = NullProblem
    /\ m_solver = NullSolver
    /\ pc = "bounds set"
    /\ ObjectInit
    /\ fnIn \in [lower : BoundTables(LowerBoundValues),
                 upper : BoundTables(UpperBoundValues)]
    /\ fnOut = <<>>

CreateInitialGuessFromBounds ==
    /\ pc = "bounds set"
    /\ pc' = "guess"
    /\ fnOut' = createInitialGuessFromBounds(fnIn.lower, fnIn.upper,
                                             <<0, GridDenominator>>)
    /\ UNCHANGED objectVars
    /\ UNCHANGED fnIn

NextGuess == CreateInitialGuessFromBounds

SpecGuess == InitGuess /\ [][NextGuess]_vars

\* ------------------------------------------------------------------------
\* flattenVariables / expandVariables and flattenConstraints /
\* expandConstraints: the blocks are concatenated in a fixed order, each block
\* column by column; expanding cuts the vector at the running offset and
\* reshapes each piece to the shape the Transcription holds for the block.
\* ------------------------------------------------------------------------
VarOrder ==
    <<"initial_time", "final_time", "states", "controls", "multipliers",
      "slacks", "derivatives", "parameters">>

ConstraintOrder == <<"defects", "residuals", "kinematic", "path">>

\* The entries of a table, column by column.
vec(t) ==
    [k \in 1 .. t.rows * t.cols |->
        t.data[<<(k - 1) % t.rows, (k - 1) \div t.rows>>]]

RECURSIVE veccat(_, _)
veccat(blocks, order) ==
    IF order = <<>> THEN <<>>
    ELSE vec(blocks[Head(order)]) \o veccat(blocks, Tail(order))

reshapeRowMajor(x, offset, r, c) ==
    [rows |-> r, cols |-> c,
     data |-> [e \in (0 .. r - 1) \X (0 .. c - 1) |->
                  x[offset + e[1] * c + e[2] + 1]]]

\* reshape(x(Slice(offset, offset + r*c)), r, c)
reshape(x, offset, r, c) ==
    [rows |-> r, cols |-> c,
     data |-> [e \in (0 .. r - 1) \X (0 .. c - 1) |->
                  x[offset + e[2] * r + e[1] + 1]]]

\* The offset of block number i of the order in the flat vector.
RECURSIVE offsetOf(_, _, _)
offsetOf(shapes, order, i) ==
    IF i = 1 THEN 0
    ELSE offsetOf(shapes, order, i - 1)
         + shapes[order[i - 1]].rows * shapes[order[i - 1]].cols

flatten(blocks, order) == veccat(blocks, order)

expand(x, shapes, order) ==
    [b \in {order[i] : i \in DOMAIN order} |->
        LET i == CHOOSE j \in DOMAIN order : order[j] = b
        IN reshape(x, offsetOf(shapes, order, i),
                   shapes[b].rows, shapes[b].cols)]

\* The shapes of the blocks of small problems on a grid of two points.
CellValues == {0, 1}

VariableShapes ==
    {[v \in Vars |->
        CASE v \in {"initial_time", "final_time"} -> [rows |-> 1, cols |-> 1]
          [] v = "states" -> [rows |-> NS, cols |-> 2]
          [] v = "controls" -> [rows |-> NC, cols |-> 2]
          [] v = "parameters" -> [rows |-> NP, cols |-> 1]
          [] OTHER -> [rows |-> 0, cols |-> 2]]
     : NS \in 0 .. MaxFlatRows, NC \in 0 .. 1, NP \in 0 .. 1}

ConstraintShapes ==
    {[b \in {"defects", "residuals", "kinematic", "path"} |->
        CASE b = "defects" -> [rows |-> Nd, cols |-> 1]
          [] b = "residuals" -> [rows |-> 0, cols |-> 2]
          [] b = "kinematic" -> [rows |-> K, cols |-> 2]
          [] b = "path" -> [rows |-> S, cols |-> 2]]
     : Nd \in 0 .. MaxFlatRows, K \in 0 .. 1, S \in 0 .. 1}

\* Every table set of the given shapes.
TablesOf(shapes) ==
    LET cells == {<<b, r, c>> \in (DOMAIN shapes) \X (0 .. MaxFlatRows) \X (0 .. 1) :
                    r < shapes[b].rows /\ c < shapes[b].cols}
    IN {[b \in DOMAIN shapes |->
            [rows |-> shapes[b].rows, cols |-> shapes[b].cols,
             data |-> [e \in (0 .. shapes[b].rows - 1)
                              \X (0 .. shapes[b].cols - 1) |->
                          cell[<<b, e[1], e[2]>>]]]]
        : cell \in [cells -> CellValues]}

InitFlatten ==
    /\ m_problem = NullProblem
    /\ m_solver = NullSolver
    /\ pc = "structured"
    /\ ObjectInit
    /\ \E kind \in {"variables", "constraints"} :
        \E shapes \in (IF kind = "variables" THEN VariableShapes
                       ELSE ConstraintShapes) :
            \E blocks \in TablesOf(shapes) :
                fnIn = [kind |-> kind, shapes |-> shapes, blocks |-> blocks]
    /\ fnOut = <<>>

\* x = flattenVariables(vars), then expandVariables(x).
RoundTripVariables ==
    /\ pc = "structured"
    /\ fnIn.kind = "variables"
    /\ pc' = "expanded"
    /\ LET x == flatten(fnIn.blocks, VarOrder)
       IN fnOut' = [flat |-> x, expanded |-> expand(x, fnIn.shapes, VarOrder)]
    /\ UNCHANGED objectVars
    /\ UNCHANGED fnIn

\* g = flattenConstraints(c), then expandConstraints(g).
RoundTripConstraints ==
    /\ pc = "structured"
    /\ fnIn.kind = "constraints"
    /\ pc' = "expanded"
    /\ LET g == flatten(fnIn.blocks, ConstraintOrder)
       IN fnOut' = [flat |-> g,
                    expanded |-> expand(g, fnIn.shapes, ConstraintOrder)]
    /\ UNCHANGED objectVars
    /\ UNCHANGED fnIn

NextFlatten ==
    \/ RoundTripVariables
    \/ RoundTripConstraints

SpecFlatten == InitFlatten /\ [][NextFlatten]_vars

\* ------------------------------------------------------------------------
\* The bounds section of printConstraintValues(): print_bounds is called for
\* the states, controls, multipliers, derivatives and slacks blocks in turn,
\* each time with it.times (G entries).  A cell is <<lower, value, upper>>.
\* ------------------------------------------------------------------------
ReportBlocks ==
    <<"states", "controls", "multipliers", "derivatives", "slacks">>

\* lower == upper == value; value below both; value above both; value on the
\* lower bound; value strictly inside; value on the upper bound.
CellTriples ==
    {<<1, 1, 1>>, <<1, 0, 1>>, <<1, 2, 1>>, <<0, 0, 2>>, <<0, 1, 2>>, <<0, 2, 2>>}

\* if (V <= L || V >= U) { if (V == L && L == U) continue; ... }
cellListedAlsoWhenEqual(cell) ==
    cell[2] <= cell[1] \/ cell[2] >= cell[3]

cellListed(cell) ==
    /\ cell[2] <= cell[1] \/ cell[2] >= cell[3]
    /\ ~(cell[2] = cell[1] /\ cell[1] = cell[3])

\* if (V < L || V > U)
cellViolated(cell) == cell[2] < cell[1] \/ cell[2] > cell[3]

\* The line printed for a listed cell.
boundLine(block, r, c, cell) ==
    [block |-> block, row |-> r, col |-> c,
     L |-> cell[2] <= cell[1],
     U |-> cell[2] >= cell[3],
     star |-> cellViolated(cell)]

\* The first loop nest of print_bounds on a table with numTimes time columns
\* requested: row by row, a row stops at its first violated cell ("break");
\* reading column t.cols of a row (numTimes > t.cols) throws.
firstPass(t, numTimes) ==
    LET n == IF numTimes < t.cols THEN numTimes ELSE t.cols
        rowViolated(r) ==
            \E c \in 0 .. n - 1 :
                cellListed(t.cells[<<r, c>>]) /\ cellViolated(t.cells[<<r, c>>])
        rowActive(r) == \E c \in 0 .. n - 1 : cellListed(t.cells[<<r, c>>])
        rowThrows(r) == ~rowViolated(r) /\ numTimes > t.cols
        throwing == {r \in 0 .. t.rows - 1 : rowThrows(r)}
        scanned == IF throwing = {} THEN 0 .. t.rows - 1
                   ELSE {r \in 0 .. t.rows - 1 :
                            \A q \in throwing : r < q}
    IN [throws |-> throwing /= {},
        boundsActive |-> \E r \in scanned : rowActive(r),
        boundsViolated |-> \E r \in scanned : rowViolated(r)]

\* The lines of row r at the columns 0 .. n-1, in order.
RECURSIVE rowLines(_, _, _, _)
rowLines(block, t, r, n) ==
    IF n = 0 THEN <<>>
    ELSE rowLines(block, t, r, n - 1)
         \o (IF cellListed(t.cells[<<r, n - 1>>])
             THEN <<boundLine(block, r, n - 1, t.cells[<<r, n - 1>>])>>
             ELSE <<>>)

RECURSIVE rowsLines(_, _, _, _)
rowsLines(block, t, rows, n) ==
    IF rows = 0 THEN <<>>
    ELSE rowsLines(block, t, rows - 1, n) \o rowLines(block, t, rows - 1, n)

\* print_bounds: the summary, the lines printed and whether it threw.
print_bounds(block, t, numTimes) ==
    LET first == firstPass(t, numTimes)
        n == IF numTimes < t.cols THEN numTimes ELSE t.cols
    IN IF first.throws
       THEN [summary |-> "", lines |-> <<>>, throws |-> TRUE]
       ELSE IF ~first.boundsActive /\ ~first.boundsViolated
       THEN [summary |-> "no bounds active or violated", lines |-> <<>>,
             throws |-> FALSE]
       ELSE [summary |-> IF ~first.boundsViolated
                         THEN "some bounds active but no bounds violated"
                         ELSE "some bounds active or violated",
             lines |-> IF numTimes > t.cols
                       THEN rowLines(block, t, 0, n)
                       ELSE rowsLines(block, t, t.rows, n),
             throws |-> numTimes > t.cols]

\* The five calls of print_bounds, up to the first that throws.
RECURSIVE printVariableBounds(_, _, _)
printVariableBounds(tables, order, numTimes) ==
    IF order = <<>>
    THEN [lines |-> <<>>, summaries |-> <<>>, throws |-> FALSE]
    ELSE LET head == print_bounds(Head(order), tables[Head(order)], numTimes)
             rest == printVariableBounds(tables, Tail(order), numTimes)
         IN IF head.throws
            THEN [lines |-> head.lines, summaries |-> <<head.summary>>,
                  throws |-> TRUE]
            ELSE [lines |-> head.lines \o rest.lines,
                  summaries |-> <<head.summary>> \o rest.summaries,
                  throws |-> rest.throws]

\* The tables of a failed solve: one or no state, one or no slack variable, on
\* the grid of a mesh of two points (trapezoidal: G = 2, P = 0;
\* Hermite-Simpson: G = 3, P = 1).
ReportShapes ==
    {[b \in {ReportBlocks[i] : i \in DOMAIN ReportBlocks} |->
        CASE b = "states" -> [rows |-> NS, cols |-> G]
          [] b = "slacks" -> [rows |-> NL, cols |-> G - 2]
          [] OTHER -> [rows |-> 0, cols |-> G]]
     : NS \in {0, 1}, NL \in {0, 1}, G \in {2, 3}}

ReportTables(shapes) ==
    LET cells == {<<b, r, c>> \in (DOMAIN shapes) \X {0} \X (0 .. 2) :
                    r < shapes[b].rows /\ c < shapes[b].cols}
    IN {[b \in DOMAIN shapes |->
            [rows |-> shapes[b].rows, cols |-> shapes[b].cols,
             cells |-> [e \in (0 .. shapes[b].rows - 1)
                               \X (0 .. shapes[b].cols - 1) |->
                          cell[<<b, e[1], e[2]>>]]]]
        : cell \in [cells -> CellTriples]}

InitReport ==
    /\ m_problem = NullProblem
    /\ m_solver = NullSolver
    /\ pc = "solver failed"
    /\ ObjectInit
    /\ \E shapes \in ReportShapes :
        \E tables \in ReportTables(shapes) :
            fnIn = [numTimes |-> shapes["states"].cols, tables |-> tables]
    /\ fnOut = <<>>

PrintConstraintValues ==
    /\ pc = "solver failed"
    /\ fnOut' = printVariableBounds(fnIn.tables, ReportBlocks, fnIn.numTimes)
    /\ pc' = IF fnOut'.throws THEN "report thrown" ELSE "reported"
    /\ UNCHANGED objectVars
    /\ UNCHANGED fnIn

NextReport == PrintConstraintValues

SpecReport == InitReport /\ [][NextReport]_vars

\* ------------------------------------------------------------------------
\* calcL1Norm(v, argmax) of the constraint sections of the report, on one row
\* of a constraint block (0-based indices as in the source).
\* ------------------------------------------------------------------------
RowValues == -2 .. 2

ConstraintRows == UNION {[1 .. n -> RowValues] : n \in 1 .. MaxRowLen}

abs(x) == IF x < 0 THEN -x ELSE x

\* The loop "for (int i = 1; i < v.numel(); ++i)" from index i on, with the
\* running max and argmax.
RECURSIVE calcL1NormFrom(_, _, _, _)
calcL1NormFrom(v, i, max, argmax) ==
    IF i >= Len(v) THEN [max |-> max, argmax |-> argmax]
    ELSE IF v[i + 1] > max
    THEN calcL1NormFrom(v, i + 1, abs(v[i + 1]), i)
    ELSE calcL1NormFrom(v, i + 1, max, argmax)

\* double max = v(0).scalar(); argmax = 0; ... return max;
calcL1Norm(v) == calcL1NormFrom(v, 1, v[1], 0)

InitNorm ==
    /\ m_problem = NullProblem
    /\ m_solver = NullSolver
    /\ pc = "row"
    /\ ObjectInit
    /\ fnIn \in ConstraintRows
    /\ fnOut = <<>>

\* double max = calcL1Norm(row, argmax); const double L1 = max;
CalcL1Norm ==
    /\ pc = "row"
    /\ pc' = "norm"
    /\ fnOut' = calcL1Norm(fnIn)
    /\ UNCHANGED objectVars
    /\ UNCHANGED fnIn

NextNorm == CalcL1Norm

SpecNorm == InitNorm /\ [][NextNorm]_vars

\* ------------------------------------------------------------------------
\* The options handed to casadi::nlpsol.  An options map is a function from
\* some of the keys to values; the entry for the solver's name, which holds
\* the per-solver options as a nested map, is kept apart from the plugin
\* entries.
\* ------------------------------------------------------------------------
OptionMaps(keys) == UNION {[ks -> {0, 1}] : ks \in SUBSET keys}

PluginOptions == OptionMaps({"expand", "print_time"})
SolverOptions == OptionMaps({"max_iter", "tol"})
OptimSolvers == {"ipopt", "snopt"}

\* casadi::Dict options = m_solver.getPluginOptions();
\* if (!options.empty()) {
\*     options[m_solver.getOptimSolver()] = m_solver.getSolverOptions();
\* }
nlpsolOptions(cfg) ==
    [plugin |-> cfg.pluginOptions,
     hasSolverEntry |-> cfg.pluginOptions /= <<>>,
     solverEntry |-> IF cfg.pluginOptions /= <<>>
                     THEN [name |-> cfg.optimSolver,
                           options |-> cfg.solverOptions]
                     ELSE [name |-> "", options |-> <<>>]]

InitOptions ==
    /\ m_problem = NullProblem
    /\ m_solver = NullSolver
    /\ pc = "configured"
    /\ ObjectInit
    /\ fnIn \in [pluginOptions : PluginOptions,
                 solverOptions : SolverOptions,
                 optimSolver : OptimSolvers]
    /\ fnOut = <<>>

\* casadi::nlpsol("nlp", m_solver.getOptimSolver(), nlp, options)
CreateNlpFunction ==
    /\ pc = "configured"
    /\ pc' = "nlpsol"
    /\ fnOut' = [solver |-> fnIn.optimSolver, options |-> nlpsolOptions(fnIn)]
    /\ UNCHANGED objectVars
    /\ UNCHANGED fnIn

NextOptions == CreateNlpFunction

SpecOptions == InitOptions /\ [][NextOptions]_vars

\* ------------------------------------------------------------------------
\* printConstraintValues(): what it indexes and which rows it prints, on the
\* layout of the object.  The report is a sequence of events: an "access"
\* reads entry `index` of something with `extent` entries (a matrix row or
\* column, a list of names), a "line" is a printed row with the time it
\* shows.  Reading a matrix outside its shape throws; reading a std::vector
\* of names past its end is undefined.
\* ------------------------------------------------------------------------
\* The name lists of the Iterate: one name per row of the block.
iterateNames(p, s) ==
    [states |-> getNumStates(p), controls |-> p.numControls,
     multipliers |-> p.numMultipliers,
     derivatives |-> getNumDerivatives(p, s), slacks |-> p.numSlacks,
     parameters |-> p.numParameters]

\* it.times: one time per grid point, here the grid point's own number.
iterateTimes(G) == [k \in 0 .. G - 1 |-> k]

reportAccess(site, kind, index, extent) ==
    [event |-> "access", site |-> site, kind |-> kind, index |-> index,
     extent |-> extent, row |-> 0, time |-> 0]

\* A printed line: `index` is the column (mesh interval or mesh point) the
\* line is about, `time` the time printed on it.
reportLine(site, row, col, time) ==
    [event |-> "line", site |-> site, kind |-> "", index |-> col,
     extent |-> 0, row |-> row, time |-> time]

accessInRange(e) == e.index >= 0 /\ e.index < e.extent

\* The time printed for column k: it.times(k).
timeOfColumn(G, k) ==
    IF k < G THEN iterateTimes(G)[k] ELSE -1

\* f[0] \o ... \o f[n-1]
RECURSIVE concatTo(_, _)
concatTo(f, n) == IF n = 0 THEN <<>> ELSE concatTo(f, n - 1) \o f[n - 1]

\* The names handed to the five calls of print_bounds: it.state_names.
boundsNames(names, block) == names.states

\* One call of print_bounds on a block of `rows` rows whose tables have
\* `cols` columns: both loop nests run itime over times.numel() = G; the
\* second reads names[ivar] for each listed row.
boundsEvents(block, rows, cols, G, numNames, active) ==
    IF rows = 0 \/ G = 0 THEN <<>>
    ELSE <<reportAccess(block \o " column", "matrix", G - 1, cols)>>
         \o (IF active
             THEN <<reportAccess(block \o " name", "names", rows - 1, numNames)>>
             ELSE <<>>)

\* printParameterBounds on a block of `rows` rows with `numNames` names.
parameterEvents(block, rows, numNames, active) ==
    IF rows = 0 THEN <<>>
    ELSE <<reportAccess(block \o " row", "matrix", rows - 1, rows)>>
         \o (IF active
             THEN <<reportAccess(block \o " name", "names", rows - 1, numNames)>>
             ELSE <<>>)

\* for (size_t istate = 0; istate < it.state_names.size(); ++istate)
defectRowsPrinted(names, Nd) == names.states

\* const double time_of_max = it.times(argmax).scalar();
timeOfMax(G, dae, argmax) == timeOfColumn(G, argmax)

defectEvents(names, Nd, G, dae, argmax) ==
    concatTo([i \in 0 .. defectRowsPrinted(names, Nd) - 1 |->
                <<reportAccess("defects row", "matrix", i, Nd),
                  reportAccess("times", "matrix", argmax, G),
                  reportAccess("state name", "names", i, names.states),
                  reportLine("defects", i, argmax, timeOfMax(G, dae, argmax))>>],
             defectRowsPrinted(names, Nd))

\* The norm rows run over the rows of the kinematic block and are labelled
\* with kinconNames (the multiplier names); the value table runs over
\* kinconNames and indexes the rows of the block.
kinematicEvents(names, K, M, G, dae, argmax) ==
    LET NM == names.multipliers
    IN concatTo([i \in 0 .. K - 1 |->
                    <<reportAccess("times", "matrix", argmax, G),
                      reportAccess("kinconNames", "names", i, NM),
                      reportLine("kinematic", i, argmax,
                                 timeOfMax(G, dae, argmax))>>], K)
       \o concatTo([imesh \in 0 .. M - 1 |->
                    <<reportAccess("times", "matrix", imesh, G),
                      reportLine("kinematic values", imesh, imesh,
                                 timeOfMax(G, dae, imesh))>>
                    \o (IF NM = 0 THEN <<>>
                        ELSE <<reportAccess("kinematic row", "matrix",
                                            NM - 1, K)>>)], M)

\* The path section: nothing when there is no path constraint.
pathEvents(sizes, M, G, dae, argmax) ==
    LET n == Len(sizes)
    IN concatTo([ipc \in 0 .. n - 1 |->
                    concatTo([ieq \in 0 .. sizes[ipc + 1] - 1 |->
                        <<reportAccess("path row", "matrix", ieq,
                                       sizes[ipc + 1]),
                          reportAccess("times", "matrix", argmax, G),
                          reportLine("path", ieq, argmax,
                                     timeOfMax(G, dae, argmax))>>],
                        sizes[ipc + 1])], n)
       \o (IF n = 0 THEN <<>>
           ELSE concatTo([imesh \in 0 .. M - 1 |->
                    <<reportAccess("times", "matrix", imesh, G),
                      reportLine("path values", imesh, imesh,
                                 timeOfMax(G, dae, imesh))>>
                    \o [ipc \in 1 .. n |->
                          reportAccess("path entry", "matrix", imesh,
                                       sizes[ipc] * M)]], M))

\* Every event of a report that runs to its end.
reportEvents(p, s, G, P, M, Nd, dae, in) ==
    LET names == iterateNames(p, s)
        block(b, rows, cols) ==
            boundsEvents(b, rows, cols, G, boundsNames(names, b), in.active)
    IN block("states", names.states, G)
       \o block("controls", names.controls, G)
       \o block("multipliers", names.multipliers, G)
       \o block("derivatives", names.derivatives, G)
       \o block("slacks", names.slacks, P)
       \o parameterEvents("time", 2, 2, in.active)
       \o parameterEvents("parameters", names.parameters, names.parameters,
                          in.active)
       \o defectEvents(names, Nd, G, dae, in.argmaxInterval)
       \o kinematicEvents(names, p.numKinematicConstraintEquations, M, G, dae,
                          in.argmaxMeshPoint)
       \o pathEvents(p.pathConstraintSizes, M, G, dae, in.argmaxMeshPoint)

\* Whether the report ends at event e: a matrix access outside the shape
\* throws; a name read past the end of its list may go on or end the program.
endsReport(e, survives) ==
    /\ e.event = "access"
    /\ ~accessInRange(e)
    /\ e.kind = "matrix" \/ ~survives

\* The events up to and including the first one that ends the report.
RECURSIVE untilEnd(_, _)
untilEnd(events, survives) ==
    IF events = <<>> THEN <<>>
    ELSE IF endsReport(Head(events), survives) THEN <<Head(events)>>
    ELSE <<Head(events)>> \o untilEnd(Tail(events), survives)

printConstraintRows(p, s, G, P, M, Nd, dae, in) ==
    LET all == reportEvents(p, s, G, P, M, Nd, dae, in)
        done == untilEnd(all, in.survives)
    IN [events |-> done,
        completed |-> \A i \in DOMAIN done : ~endsReport(done[i], in.survives)]

InitRows == Init

\* The values decide which cells are listed and where a row has its maximum:
\* `active` lists every cell of the bounds section or none, the two argmax
\* are the columns calcL1Norm returns.
PrintConstraintRows ==
    /\ pc = "ready"
    /\ pc' = "rows printed"
    /\ \E in \in [active : BOOLEAN, survives : BOOLEAN,
                  argmaxInterval : 0 .. m_numMeshIntervals - 1,
                  argmaxMeshPoint : 0 .. m_numMeshPoints - 1] :
        /\ fnIn' = in
        /\ fnOut' = printConstraintRows(
                        m_problem, m_solver, m_numGridPoints,
                        m_numPointsIgnoringConstraints, m_numMeshPoints,
                        m_numDefectsPerGridPoint, m_daeIndices, in)
    /\ UNCHANGED objectVars

NextRows ==
    \/ CreateVariablesAndSetBounds
    \/ PrintConstraintRows

SpecRows == InitRows /\ [][NextRows]_vars

\* ------------------------------------------------------------------------
\* transcribe() called again and again on one object; fnOut counts the calls
\* made so far.
\* ------------------------------------------------------------------------
\* How many calls of transcribe() one object gets.
MaxTranscribes == 2

InitRepeat ==
    /\ m_problem \in Problems
    /\ m_solver \in Solvers
    /\ pc = "constructed"
    /\ ObjectInit
    /\ fnIn = <<>>
    /\ fnOut = 0

TranscribeAgain ==
    /\ fnOut < MaxTranscribes
    /\ TranscribeBody
    /\ fnOut' = fnOut + 1
    /\ UNCHANGED fnIn

NextRepeat ==
    \/ CreateVariablesAndSetBounds
    \/ TranscribeAgain

SpecRepeat == InitRepeat /\ [][NextRepeat]_vars

\* ------------------------------------------------------------------------
\* The whole bounds section of the report: the five time-varying blocks, then
\* the time block and the parameter block (printParameterBounds).
\* ------------------------------------------------------------------------
\* The first loop of printParameterBounds: one column, and "break" leaves the
\* loop at the first violated row.
parameterFirstPassNeverViolated(t) ==
    [boundsActive |-> \E r \in 0 .. t.rows - 1 : cellListed(t.cells[<<r, 0>>]),
     boundsViolated |-> FALSE]

parameterFirstPass(t) ==
    LET violated == {r \in 0 .. t.rows - 1 :
                        /\ cellListed(t.cells[<<r, 0>>])
                        /\ cellViolated(t.cells[<<r, 0>>])}
        scanned == {r \in 0 .. t.rows - 1 : \A q \in violated : r <= q}
    IN [boundsActive |-> \E r \in scanned : cellListed(t.cells[<<r, 0>>]),
        boundsViolated |-> violated /= {}]

\* printParameterBounds: the summary and the lines printed.
printParameterBounds(block, t) ==
    LET first == parameterFirstPass(t)
    IN IF ~first.boundsActive /\ ~first.boundsViolated
       THEN [summary |-> "no bounds active or violated", lines |-> <<>>]
       ELSE [summary |-> IF ~first.boundsViolated
                         THEN "some bounds active but no bounds violated"
                         ELSE "some bounds active or violated",
             lines |-> rowsLines(block, t, t.rows, 1)]

\* The blocks in the order printed, the summary of each (empty when the block
\* threw before its summary) and all lines.
printBounds(in) ==
    LET varying == printVariableBounds(in.tables, ReportBlocks, in.numTimes)
        time == printParameterBounds("time", in.time)
        params == printParameterBounds("parameters", in.parameters)
    IN IF varying.throws
       THEN [blocks |-> SubSeq(ReportBlocks, 1, Len(varying.summaries)),
             summaries |-> varying.summaries,
             lines |-> varying.lines,
             throws |-> TRUE]
       ELSE [blocks |-> ReportBlocks \o <<"time", "parameters">>,
             summaries |-> varying.summaries
                           \o <<time.summary, params.summary>>,
             lines |-> varying.lines \o time.lines \o params.lines,
             throws |-> FALSE]

\* rows x 1 tables of bounds and values.
ParameterTables(rows) ==
    {[rows |-> rows, cols |-> 1, cells |-> cells]
     : cells \in [(0 .. rows - 1) \X {0} -> CellTriples]}

\* The layouts of the time-varying blocks: a state on a grid of two points,
\* or no state on a grid of three.
BoundsShapes ==
    {shapes \in ReportShapes :
        shapes["states"].cols = 2 \/ shapes["states"].rows = 0}

InitBounds ==
    /\ m_problem = NullProblem
    /\ m_solver = NullSolver
    /\ pc = "solver failed"
    /\ ObjectInit
    /\ \E shapes \in BoundsShapes :
        \E tables \in ReportTables(shapes), time \in ParameterTables(2),
           parameters \in ParameterTables(0) \cup ParameterTables(1) :
            fnIn = [numTimes |-> shapes["states"].cols, tables |-> tables,
                    time |-> time, parameters |-> parameters]
    /\ fnOut = <<>>

PrintBounds ==
    /\ pc = "solver failed"
    /\ fnOut' = printBounds(fnIn)
    /\ pc' = IF fnOut'.throws THEN "report thrown" ELSE "bounds printed"
    /\ UNCHANGED objectVars
    /\ UNCHANGED fnIn

NextBounds == PrintBounds

SpecBounds == InitBounds /\ [][NextBounds]_vars

\* ------------------------------------------------------------------------
\* Properties.
\* ------------------------------------------------------------------------
Range(f) == {f[i] : i \in DOMAIN f}

StrictlyIncreasing(f) ==
    \A i, j \in DOMAIN f : i < j => f[i] < f[j]

Created == pc \notin {"constructed", "mask"}

\* C1: after createVariablesAndSetBounds the stored total constraint count is
\* Nd*I + NR*G + K*M + the sum over the path constraints of S_i*M, with
\* I = M - 1, NR the number of speeds in implicit mode and 0 otherwise.
C1_TotalConstraintCount ==
    Created =>
        LET M == m_solver.meshSize
            G == Len(m_kinematicConstraintIndices)
            NR == IF m_solver.implicit THEN m_problem.numSpeeds ELSE 0
        IN m_numConstraints =
              m_numDefectsPerGridPoint * (M - 1) + NR * G
              + m_problem.numKinematicConstraintEquations * M
              + SumSeq(m_problem.pathConstraintSizes) * M

C1_Witness ==
    /\ pc = "ready"
    /\ Len(m_problem.pathConstraintSizes) = 2
    /\ m_solver.implicit
    /\ m_problem.numSpeeds = 1
    /\ m_numConstraints > 0

\* C2: for every mask, the DAE vector lists the positions where the mask is 1
\* and the IIC vector all the others; the two are disjoint, cover 0..G-1 with
\* every index once, each in strictly increasing order; the grid index vector
\* is 0, 1, ..., G-1.
C2_IndexPartition ==
    pc = "indices" =>
        LET G == Len(fnIn)
            dae == m_daeIndices
            iic == m_daeIndicesIgnoringConstraints
        IN /\ Range(dae) = {i \in 0 .. G - 1 : fnIn[i + 1] = 1}
           /\ Range(iic) = (0 .. G - 1) \ Range(dae)
           /\ Range(dae) \cap Range(iic) = {}
           /\ Len(dae) + Len(iic) = G
           /\ StrictlyIncreasing(dae)
           /\ StrictlyIncreasing(iic)
           /\ Len(m_gridIndices) = G
           /\ \A k \in 1 .. G : m_gridIndices[k] = k - 1

C2_Witness ==
    /\ pc = "indices"
    /\ Len(m_daeIndices) >= 2
    /\ Len(m_daeIndicesIgnoringConstraints) >= 2
    /\ fnIn[1] = 0

\* C3: after createVariablesAndSetBounds the DAE vector has M entries, the IIC
\* vector G - M entries, and DAE contains 0 and G - 1.
C3_IndexSizes ==
    Created =>
        LET M == m_solver.meshSize
            G == m_numGridPoints
        IN /\ Len(m_daeIndices) = M
           /\ Len(m_daeIndicesIgnoringConstraints) = G - M
           /\ 0 \in Range(m_daeIndices)
           /\ (G - 1) \in Range(m_daeIndices)

C3_Witness ==
    /\ pc = "ready"
    /\ m_solver.scheme = "hermite-simpson"
    /\ m_solver.meshSize = 3
    /\ Len(m_daeIndicesIgnoringConstraints) = 2

\* C4: for every row of states, controls and multipliers, column 0 of the
\* bound tables holds the row's initial bounds, column G-1 its final bounds,
\* columns 1..G-2 its regular bounds; an absent initial or final bound is
\* replaced by the regular bounds.
ExpectedRowBounds(var, row, col, G) ==
    LET info == getInfo(var, row)
    IN IF col = 0
       THEN (IF info.initialBounds.set THEN info.initialBounds ELSE info.bounds)
       ELSE IF col = G - 1
       THEN (IF info.finalBounds.set THEN info.finalBounds ELSE info.bounds)
       ELSE info.bounds

C4_InitialFinalBounds ==
    Created =>
        \A var \in {"states", "controls", "multipliers"} :
            /\ m_lowerBounds[var].rows = m_vars[var].rows
            /\ m_lowerBounds[var].cols = m_numGridPoints
            /\ m_upperBounds[var].rows = m_vars[var].rows
            /\ m_upperBounds[var].cols = m_numGridPoints
            /\ \A row \in 0 .. m_vars[var].rows - 1 :
               \A col \in 0 .. m_numGridPoints - 1 :
                  /\ m_lowerBounds[var].data[<<row, col>>] =
                        ExpectedRowBounds(var, row, col, m_numGridPoints).lower
                  /\ m_upperBounds[var].data[<<row, col>>] =
                        ExpectedRowBounds(var, row, col, m_numGridPoints).upper

C4_Witness ==
    /\ pc = "ready"
    /\ m_numGridPoints >= 3
    /\ m_vars["states"].rows >= 2
    /\ m_vars["multipliers"].rows >= 1
    /\ ~getInfo("multipliers", 0).initialBounds.set
    /\ m_lowerBounds["multipliers"].data[<<0, 0>>] =
            getInfo("multipliers", 0).bounds.lower

\* C5: after transcribe the defect block and its bound tables are Nd x I with
\* every bound 0; in implicit mode the residual block and its bound tables are
\* NR x G with every bound 0; the kinematic bound tables are K x M and hold
\* the Problem's lower, respectively upper, kinematic bound in every entry.
HasShape(t, r, c) == t.rows = r /\ t.cols = c

AllEntries(t, v) ==
    /\ DOMAIN t.data = (0 .. t.rows - 1) \X (0 .. t.cols - 1)
    /\ \A q \in DOMAIN t.data : t.data[q] = v

C5_ConstraintBounds ==
    m_xdot.built =>
        LET M == m_solver.meshSize
            G == m_numGridPoints
            K == m_problem.numKinematicConstraintEquations
            Nd == m_numDefectsPerGridPoint
        IN /\ HasShape(m_constraints.defects, Nd, M - 1)
           /\ HasShape(m_constraintsLowerBounds.defects, Nd, M - 1)
           /\ HasShape(m_constraintsUpperBounds.defects, Nd, M - 1)
           /\ AllEntries(m_constraintsLowerBounds.defects, 0)
           /\ AllEntries(m_constraintsUpperBounds.defects, 0)
           /\ m_solver.implicit =>
                /\ HasShape(m_constraints.residuals, m_problem.numSpeeds, G)
                /\ HasShape(m_constraintsLowerBounds.residuals,
                            m_problem.numSpeeds, G)
                /\ HasShape(m_constraintsUpperBounds.residuals,
                            m_problem.numSpeeds, G)
                /\ AllEntries(m_constraintsLowerBounds.residuals, 0)
                /\ AllEntries(m_constraintsUpperBounds.residuals, 0)
           /\ HasShape(m_constraintsLowerBounds.kinematic, K, M)
           /\ HasShape(m_constraintsUpperBounds.kinematic, K, M)
           /\ AllEntries(m_constraintsLowerBounds.kinematic,
                         getKinematicConstraintBounds.lower)
           /\ AllEntries(m_constraintsUpperBounds.kinematic,
                         getKinematicConstraintBounds.upper)

C5_Witness ==
    /\ pc = "transcribed"
    /\ m_solver.implicit
    /\ m_problem.numSpeeds = 1
    /\ m_problem.numKinematicConstraintEquations = 1
    /\ m_constraintsUpperBounds.kinematic.cols = 3
    /\ m_constraintsLowerBounds.residuals.cols = 5


\* The log of the whole build: createVariablesAndSetBounds, then the call of
\* transcribe() or solve() in progress or last finished.
FullLog == createLog \o progress.log

ReachedGuess == "guess" \in Range(progress.log)

\* C6: in solve, a guess with G slack columns is reduced to P columns by
\* removing the columns at the DAE indices; one with P columns is left as it
\* is; any other width raises an error stating the expected and the actual
\* width, and the solver is not invoked.
C6_SlackWidth ==
    (ReachedGuess /\ guess.hasSlacks) =>
        LET G == m_numGridPoints
            P == m_numPointsIgnoringConstraints
            w == guess.given.cols
        IN /\ w = G =>
                /\ guess.slacks.cols = P
                /\ \A q \in DOMAIN guess.slacks.data :
                        guess.slacks.data[q][2] \notin Range(m_daeIndices)
                /\ guess.slacks.rows >= 1 =>
                        {guess.slacks.data[q][2] : q \in DOMAIN guess.slacks.data}
                            = (0 .. G - 1) \ Range(m_daeIndices)
           /\ w = P => guess.slacks = guess.given
           /\ w \in {G, P} =>
                /\ raised.kind # "slack length"
                /\ nlpsolCalls = 1
           /\ w \notin {G, P} =>
                /\ pc = "thrown"
                /\ raised = [kind |-> "slack length", expected |-> P,
                             actual |-> w]
                /\ nlpsolCalls = 0
                /\ ~nlpStats.called
                /\ solution = NoSolution

C6_Witness ==
    /\ pc = "thrown"
    /\ raised.kind = "slack length"
    /\ raised.expected = 2
    /\ raised.actual = 6
    /\ guess.given.rows = 1

\* C7: when the guess has G slack columns, the columns that remain are the
\* guess's columns at the IIC indices, in increasing index order, the rows
\* untouched.
C7_SlackColumns ==
    (ReachedGuess /\ guess.hasSlacks /\ guess.given.cols = m_numGridPoints) =>
        LET iic == m_daeIndicesIgnoringConstraints
        IN /\ guess.slacks.rows = guess.given.rows
           /\ guess.slacks.cols = Len(iic)
           /\ \A r \in 0 .. guess.given.rows - 1 :
              \A j \in 0 .. Len(iic) - 1 :
                 guess.slacks.data[<<r, j>>] = guess.given.data[<<r, iic[j + 1]>>]

C7_Witness ==
    /\ pc = "solved"
    /\ guess.hasSlacks
    /\ guess.given.cols = m_numGridPoints
    /\ guess.slacks.rows = 1
    /\ guess.slacks.cols = 2
    /\ guess.slacks.data[<<0, 1>>] = <<0, 3>>

\* C8 as claimed: when NQ differs from NU the error leaves solve before any
\* symbolic object (objective, xdot, defects, constraint blocks) is built, the
\* solver is not invoked and no Solution is produced.
C8_NothingBuiltBeforeError ==
    raised.kind = "NQ != NU" =>
        /\ progress.written \cap SymbolicObjects = {}
        /\ ~m_objective.built
        /\ nlpsolCalls = 0
        /\ solution = NoSolution

\* C8 as the code has it: when NQ differs from NU, transcribe and solve raise
\* the error right after setObjective has built the objective and before xdot,
\* the defects or any constraint block is built; the solver is not invoked
\* and no Solution is produced.
C8_ErrorAfterObjectiveOnly ==
    /\ (m_problem.numCoordinates # m_problem.numSpeeds
        /\ pc \notin {"constructed", "ready", "mask", "indices"}) =>
            /\ pc = "thrown"
            /\ raised.kind = "NQ != NU"
    /\ raised.kind = "NQ != NU" =>
        /\ m_problem.numCoordinates # m_problem.numSpeeds
        /\ progress.log = <<"objective">>
        /\ progress.written \cap SymbolicObjects = {"m_objective"}
        /\ m_objective.built
        /\ ~m_xdot.built
        /\ m_constraints.defects = Empty
        /\ m_constraints.kinematic = Empty
        /\ nlpsolCalls = 0
        /\ ~nlpStats.called
        /\ solution = NoSolution

C8_Witness ==
    /\ pc = "thrown"
    /\ raised.kind = "NQ != NU"
    /\ m_objective.built
    /\ m_problem.numCoordinates = 1
    /\ m_problem.numSpeeds = 0

\* C9: when the solver reports non-success solve does not raise: it returns a
\* Solution with success = false and the report is printed exactly once; when
\* the solver reports success the report is not printed.
C9_FailureIsReturned ==
    nlpStats.called =>
        /\ pc = "solved"
        /\ raised = NoError
        /\ solution.produced
        /\ solution.stats.success = nlpStats.success
        /\ reportsPrinted = (IF nlpStats.success THEN 0 ELSE 1)

\* C10 as claimed: within one solve the steps run in the order layout, grid,
\* xdot, defects, path constraints, objective, flatten, solver call, and no
\* step reads a field not yet written.
NamedSteps(order) == SelectSeq(FullLog, LAMBDA x : x \in Range(order))

IsPrefix(a, b) == Len(a) <= Len(b) /\ a = SubSeq(b, 1, Len(a))

ClaimedOrder ==
    <<"layout", "grid", "xdot", "defects", "path", "objective", "flatten",
      "solver">>

C10_ClaimedOrder ==
    /\ ~progress.readUnwritten
    /\ IsPrefix(NamedSteps(ClaimedOrder), ClaimedOrder)
    /\ pc = "solved" => NamedSteps(ClaimedOrder) = ClaimedOrder

\* C10 as the code has it: the order is layout, grid, objective, xdot,
\* defects, path constraints, flatten, solver call (the objective is built
\* first in transcribe), and no step reads a field not yet written.
CodeOrder ==
    <<"layout", "grid", "objective", "xdot", "defects", "path", "flatten",
      "solver">>

C10_BuildOrder ==
    /\ ~progress.readUnwritten
    /\ IsPrefix(NamedSteps(CodeOrder), CodeOrder)
    /\ pc = "solved" => NamedSteps(CodeOrder) = CodeOrder

C10_Witness ==
    /\ pc = "solved"
    /\ m_solver.implicit
    /\ Len(m_problem.pathConstraintSizes) >= 1
    /\ NamedSteps(CodeOrder) = CodeOrder

\* The duration-scaled quadrature of the integrand plus the endpoint cost.
PlainObjective(in) ==
    duration(in) * SumSeq([g \in 1 .. in.numGridPoints |->
                              in.quadCoeffs[g] * in.integrand[g]])
    + in.endpointCost

Requested(in) == in.minimizeLagrangeMultipliers /\ in.numMultipliers >= 1

SumOfSquares(in) ==
    SumSeq([g \in 1 .. in.numGridPoints |->
        SumSeq([r \in 1 .. in.numMultipliers |->
                    in.mults[<<r, g>>] * in.mults[<<r, g>>]])])

\* C11 as claimed: the objective is duration * sum of q[g]*l[g], plus the
\* endpoint cost, plus w times the sum of the squared multipliers as a term of
\* its own, not scaled by the duration or the quadrature coefficients.
C11_SeparateRegularization ==
    pc = "objective" =>
        fnOut.value =
            PlainObjective(fnIn)
            + (IF Requested(fnIn)
               THEN fnIn.lagrangeMultiplierWeight * SumOfSquares(fnIn)
               ELSE 0)

\* C11 amended: the regularization is added to the integrand, so at every grid
\* point g the term w * (sum over rows of lambda[r,g]^2) is weighted by q[g]
\* and the whole is multiplied by the duration; the endpoint cost is added.
C11_IntegratedRegularization ==
    pc = "objective" =>
        fnOut.value =
            PlainObjective(fnIn)
            + (IF Requested(fnIn)
               THEN duration(fnIn) * fnIn.lagrangeMultiplierWeight
                    * SumSeq([g \in 1 .. fnIn.numGridPoints |->
                        fnIn.quadCoeffs[g]
                        * SumSeq([r \in 1 .. fnIn.numMultipliers |->
                              fnIn.mults[<<r, g>>] * fnIn.mults[<<r, g>>]])])
               ELSE 0)

C11_Witness ==
    /\ pc = "objective"
    /\ Requested(fnIn)
    /\ fnIn.lagrangeMultiplierWeight = 3
    /\ fnIn.numGridPoints = 2
    /\ fnIn.quadCoeffs = <<1, 2>>
    /\ fnIn.mults[<<1, 1>>] /= fnIn.mults[<<1, 2>>]
    /\ fnOut.value > PlainObjective(fnIn)

\* C12: the regularization term is part of the objective exactly when
\* minimizeLagrangeMultipliers is set and there is at least one multiplier;
\* otherwise the objective is the plain one, whatever the weight.
C12_RegularizationCondition ==
    pc = "objective" =>
        /\ fnOut.regularized <=> Requested(fnIn)
        /\ ~Requested(fnIn) => fnOut.value = PlainObjective(fnIn)

C12_Witness ==
    /\ pc = "objective"
    /\ ~fnIn.minimizeLagrangeMultipliers
    /\ fnIn.numMultipliers = 1
    /\ fnIn.lagrangeMultiplierWeight = 3
    /\ ~fnOut.regularized
    /\ fnOut.value = PlainObjective(fnIn)

\* C13: after transcribe, row r < NQ of xdot is speed row NQ + r of the states
\* at every column; at the IIC columns the velocity-correction output is added
\* exactly when enforceConstraintDerivatives is set and P > 0, never at a DAE
\* column; the velocity-correction function is evaluated only in that case and
\* only on the IIC index vector.
C13_QdotRows ==
    m_xdot.built =>
        LET NQ == m_problem.numCoordinates
            G == m_numGridPoints
            P == m_numPointsIgnoringConstraints
            enforced == m_problem.enforceConstraintDerivatives /\ P > 0
            corrCalls == {i \in DOMAIN trajCalls :
                             trajCalls[i].function = "VelocityCorrection"}
        IN /\ DOMAIN m_xdot.qdot = (0 .. NQ - 1) \X (0 .. G - 1)
           /\ \A r \in 0 .. NQ - 1, c \in 0 .. G - 1 :
                LET e == m_xdot.qdot[<<r, c>>]
                IN /\ e.state = m_problem.numCoordinates + r
                   /\ e.col = c
                   /\ c \in Range(m_daeIndices) => e.uCorr = <<>>
                   /\ c \in Range(m_daeIndicesIgnoringConstraints) =>
                        IF enforced
                        THEN /\ Len(e.uCorr) = 2
                             /\ e.uCorr[1] = r
                             /\ m_daeIndicesIgnoringConstraints[e.uCorr[2] + 1] = c
                        ELSE e.uCorr = <<>>
           /\ (corrCalls /= {}) <=> enforced
           /\ \A i \in corrCalls :
                trajCalls[i].timeIndices = "m_daeIndicesIgnoringConstraints"

C13_Witness ==
    /\ pc = "transcribed"
    /\ m_problem.numCoordinates = 1
    /\ m_problem.enforceConstraintDerivatives
    /\ m_numPointsIgnoringConstraints = 2
    /\ m_xdot.qdot[<<0, 1>>].uCorr = <<0, 0>>
    /\ m_xdot.qdot[<<0, 3>>].uCorr = <<0, 1>>
    /\ m_xdot.qdot[<<0, 2>>].uCorr = <<>>

\* C14 as claimed: evalOnTrajectory raises the internal error exactly when the
\* index vector it receives is not equal to the grid, the DAE or the IIC index
\* vector; an accepted vector gets the parameters block of the matching width
\* (G for grid, M for DAE, P for IIC).  Stated for vectors whose entries are
\* columns of the grid.
C14_RejectsUnequalVectors ==
    pc = "evaluated" =>
        LET canonical == {m_gridIndices, m_daeIndices,
                          m_daeIndicesIgnoringConstraints}
            valid == \A k \in DOMAIN fnIn.entries :
                        fnIn.entries[k] \in 0 .. m_numGridPoints - 1
        IN /\ valid =>
                ((fnOut.raised = "Internal error.") <=>
                    (fnIn.entries \notin canonical))
           /\ fnOut.raised = "none" =>
                /\ fnOut.params.cols = Len(fnIn.entries)
                /\ fnOut.params.rows = m_problem.numParameters

\* C14 amended: given a non-empty index vector, evalOnTrajectory returns
\* normally exactly when it receives one
\* of the three member index vectors themselves (the comparison is by object
\* identity); every other vector, a copy with equal entries included, raises:
\* the internal error when its entries are valid grid columns.  An accepted
\* vector gets the parameters block of the matching width.
C14_RejectsOtherObjects ==
    pc = "evaluated" =>
        /\ (fnOut.raised = "none") <=> (fnIn.object \in MemberIndexVectors)
        /\ (fnOut.raised = "Internal error.") <=>
                /\ fnIn.object \notin MemberIndexVectors
                /\ \A k \in DOMAIN fnIn.entries :
                        fnIn.entries[k] \in 0 .. m_numGridPoints - 1
        /\ fnOut.raised = "none" =>
                /\ fnOut.params.rows = m_problem.numParameters
                /\ fnOut.params.cols = Len(fnIn.entries)
                /\ fnOut.params.cols =
                     CASE fnIn.object = "m_gridIndices" -> m_numGridPoints
                       [] fnIn.object = "m_daeIndices" -> m_solver.meshSize
                       [] fnIn.object = "m_daeIndicesIgnoringConstraints" ->
                            m_numGridPoints - m_solver.meshSize

C14_Witness ==
    /\ pc = "evaluated"
    /\ fnIn.object = "local"
    /\ fnIn.entries = m_daeIndicesIgnoringConstraints
    /\ Len(fnIn.entries) = 2
    /\ m_problem.numParameters = 1
    /\ fnOut.raised = "Internal error."

\* C15 as claimed: in every Solution on a grid of G >= 2 points, times[0] is
\* the solution's initial_time, times[G-1] its final_time, and the times are
\* strictly increasing.
C15_TimesIncrease ==
    pc = "solution" =>
        LET G == Len(fnOut.times)
        IN /\ fnOut.times[1] = fnOut.variables.initial_time * GridDenominator
           /\ fnOut.times[G] = fnOut.variables.final_time * GridDenominator
           /\ StrictlyIncreasing(fnOut.times)

\* C15 amended: times[0] is the solution's initial_time and times[G-1] its
\* final_time; the times are strictly increasing exactly when final_time is
\* greater than initial_time.
C15_TimesEndpoints ==
    pc = "solution" =>
        LET G == Len(fnOut.times)
        IN /\ G = Len(fnIn.grid)
           /\ fnOut.times[1] = fnOut.variables.initial_time * GridDenominator
           /\ fnOut.times[G] = fnOut.variables.final_time * GridDenominator
           /\ StrictlyIncreasing(fnOut.times) <=>
                fnOut.variables.final_time > fnOut.variables.initial_time

C15_Witness ==
    /\ pc = "solution"
    /\ Len(fnOut.times) = 4
    /\ fnOut.variables.initial_time = 1
    /\ fnOut.variables.final_time = 1
    /\ fnOut.times[2] = fnOut.times[3]

\* C16: in the guess made from the bounds, every cell of every block is the
\* midpoint of its bounds when both are finite, the finite bound when exactly
\* one is, and 0 when neither is; the times of the guess are computed from the
\* resulting initial_time and final_time cells.
C16_MidpointGuess ==
    pc = "guess" =>
        /\ DOMAIN fnOut.variables = Vars
        /\ \A v \in Vars :
            /\ fnOut.variables[v].rows = fnIn.lower[v].rows
            /\ fnOut.variables[v].cols = fnIn.lower[v].cols
            /\ \A e \in DOMAIN fnIn.lower[v].data :
                LET l == fnIn.lower[v].data[e]
                    u == fnIn.upper[v].data[e]
                    x == fnOut.variables[v].data[e]
                IN /\ x.inf = 0
                   /\ (l.inf = 0 /\ u.inf = 0) => 2 * x.v = l.v + u.v
                   /\ (l.inf = 0 /\ u.inf /= 0) => x.v = l.v
                   /\ (l.inf /= 0 /\ u.inf = 0) => x.v = u.v
                   /\ (l.inf /= 0 /\ u.inf /= 0) => x.v = 0
        /\ LET t0 == fnOut.variables["initial_time"].data[<<0, 0>>].v
               tf == fnOut.variables["final_time"].data[<<0, 0>>].v
           IN fnOut.times = <<t0 * GridDenominator, tf * GridDenominator>>

C16_Witness ==
    /\ pc = "guess"
    /\ fnIn.lower["states"].data[<<0, 0>>] = Finite(2)
    /\ fnIn.upper["states"].data[<<0, 0>>] = Finite(4)
    /\ fnOut.variables["states"].data[<<0, 0>>] = Finite(3)
    /\ fnIn.lower["states"].data[<<0, 1>>] = NegativeInfinity
    /\ fnIn.upper["states"].data[<<0, 1>>] = Finite(4)
    /\ fnOut.variables["states"].data[<<0, 1>>] = Finite(4)
    /\ fnIn.lower["initial_time"].data[<<0, 0>>] = NegativeInfinity
    /\ fnIn.upper["initial_time"].data[<<0, 0>>] = PositiveInfinity
    /\ fnIn.lower["final_time"].data[<<0, 0>>] = Finite(2)
    /\ fnIn.upper["final_time"].data[<<0, 0>>] = PositiveInfinity
    /\ fnOut.times = <<0, 2 * GridDenominator>>

\* C17: for a well-shaped set of variable blocks, expanding the flattened
\* vector gives back every block entry by entry, and the same holds for the
\* constraint blocks; the flat vector holds every entry once.
C17_FlattenExpandRoundTrip ==
    pc = "expanded" =>
        /\ DOMAIN fnOut.expanded = DOMAIN fnIn.blocks
        /\ \A b \in DOMAIN fnIn.blocks :
            /\ fnOut.expanded[b].rows = fnIn.blocks[b].rows
            /\ fnOut.expanded[b].cols = fnIn.blocks[b].cols
            /\ \A e \in DOMAIN fnIn.blocks[b].data :
                fnOut.expanded[b].data[e] = fnIn.blocks[b].data[e]
        /\ Len(fnOut.flat) =
             SumSeq([i \in 1 .. Len(IF fnIn.kind = "variables" THEN VarOrder
                                    ELSE ConstraintOrder) |->
                LET b == (IF fnIn.kind = "variables" THEN VarOrder
                          ELSE ConstraintOrder)[i]
                IN fnIn.shapes[b].rows * fnIn.shapes[b].cols])

C17_Witness ==
    /\ pc = "expanded"
    /\ fnIn.kind = "variables"
    /\ fnIn.shapes["states"].rows = 2
    /\ fnIn.shapes["controls"].rows = 1
    /\ fnIn.blocks["states"].data[<<0, 1>>] = 1
    /\ fnIn.blocks["states"].data[<<1, 0>>] = 0
    /\ fnOut.expanded["states"].data[<<0, 1>>] = 1
    /\ fnOut.flat[4] = 0
    /\ fnOut.flat[5] = 1

ReportDone == pc \in {"reported", "report thrown"}

LinesOf(b, r, c) ==
    {i \in DOMAIN fnOut.lines :
        /\ fnOut.lines[i].block = b
        /\ fnOut.lines[i].row = r
        /\ fnOut.lines[i].col = c}

\* C18: in the bounds section of the report, a cell of a time-varying block is
\* listed if and only if its value is at or outside its bounds and not
\* value = lower = upper; a listed cell carries L exactly when V <= L, U
\* exactly when V >= U and * exactly when V < L or V > U.
C18_ListedCells ==
    ReportDone =>
        \A b \in DOMAIN fnIn.tables :
            \A e \in DOMAIN fnIn.tables[b].cells :
                LET cell == fnIn.tables[b].cells[e]
                    L == cell[1]
                    V == cell[2]
                    U == cell[3]
                    listed == LinesOf(b, e[1], e[2])
                IN /\ (listed /= {}) <=>
                        ((V <= L \/ V >= U) /\ ~(V = L /\ L = U))
                   /\ \A i \in listed :
                        /\ fnOut.lines[i].L <=> V <= L
                        /\ fnOut.lines[i].U <=> V >= U
                        /\ fnOut.lines[i].star <=> (V < L \/ V > U)

\* The first state has initial bounds [1, 1]: column 0 of its row in the bound
\* tables holds lower = upper = 1.
InitialBoundsOneOne ==
    /\ ReportDone
    /\ fnIn.tables["states"].rows >= 1
    /\ fnIn.tables["states"].cells[<<0, 0>>][1] = 1
    /\ fnIn.tables["states"].cells[<<0, 0>>][3] = 1

\* C19 as claimed: after a failed solve of a problem in which a state's
\* initial bounds are [1, 1], the report lists that state's row as active
\* with both the L and the U marker.
C19_BothMarkers ==
    InitialBoundsOneOne =>
        \E i \in DOMAIN fnOut.lines :
            /\ fnOut.lines[i].block = "states"
            /\ fnOut.lines[i].row = 0
            /\ fnOut.lines[i].L
            /\ fnOut.lines[i].U

\* C19 amended: with initial bounds [1, 1] the state's initial cell is not
\* listed when its value is 1 (lower == upper == value is ignored); when its
\* value differs from 1 it is listed once, with * and with exactly one of L
\* (value below 1) and U (value above 1), never with both.
C19_EqualBoundsCell ==
    InitialBoundsOneOne =>
        LET V == fnIn.tables["states"].cells[<<0, 0>>][2]
            listed == LinesOf("states", 0, 0)
        IN /\ V = 1 => listed = {}
           /\ V /= 1 => Cardinality(listed) = 1
           /\ \A i \in listed :
                /\ fnOut.lines[i].star
                /\ fnOut.lines[i].L <=> V < 1
                /\ fnOut.lines[i].U <=> V > 1
                /\ ~(fnOut.lines[i].L /\ fnOut.lines[i].U)

C19_Witness ==
    /\ InitialBoundsOneOne
    /\ fnIn.tables["states"].cells[<<0, 0>>][2] = 0
    /\ fnIn.tables["states"].cells[<<0, 1>>] = <<1, 1, 1>>
    /\ \E i \in LinesOf("states", 0, 0) :
            fnOut.lines[i].L /\ ~fnOut.lines[i].U /\ fnOut.lines[i].star

\* C20: for a row of a constraint block, the value reported as the max
\* absolute value is the largest |v_i| of the row, and the reported argmax is
\* an index where it is attained.
C20_MaxAbsAndArgmax ==
    pc = "norm" =>
        /\ \A i \in DOMAIN fnIn : abs(fnIn[i]) <= fnOut.max
        /\ \E i \in DOMAIN fnIn : abs(fnIn[i]) = fnOut.max
        /\ fnOut.argmax \in 0 .. Len(fnIn) - 1
        /\ abs(fnIn[fnOut.argmax + 1]) = fnOut.max

\* C21: the solver is created with the plugin options and with the per-solver
\* options of the configuration: whenever the caller gave per-solver options
\* they reach the backend under the solver's name, also when the plugin
\* options map is empty.
C21_SolverOptionsForwarded ==
    pc = "nlpsol" =>
        /\ fnOut.options.plugin = fnIn.pluginOptions
        /\ fnIn.solverOptions /= <<>> =>
            /\ fnOut.options.hasSolverEntry
            /\ fnOut.options.solverEntry.name = fnIn.optimSolver
            /\ fnOut.options.solverEntry.options = fnIn.solverOptions

\* C22: in implicit mode, after transcribe the udot rows (NQ .. NQ+NU-1) of
\* xdot hold the derivative variables at every grid column, and every column
\* of the NU x G residual block is assigned exactly once: the DAE columns by
\* the constrained implicit function, the IIC columns by the implicit function
\* that ignores the constraints.
C22_ImplicitAssignments ==
    (m_xdot.built /\ m_solver.implicit) =>
        LET NQ == m_problem.numCoordinates
            NU == m_problem.numSpeeds
            G == m_numGridPoints
            res == m_constraints.residuals
        IN /\ \A r \in NQ .. NQ + NU - 1 : \A c \in 0 .. G - 1 :
                m_xdot.dynamics[<<r, c>>] = <<"derivatives">>
           /\ res.rows = NU
           /\ res.cols = G
           /\ DOMAIN res.data = (0 .. NU - 1) \X (0 .. G - 1)
           /\ \A r \in 0 .. NU - 1 : \A c \in 0 .. G - 1 :
                res.data[<<r, c>>] =
                    IF c \in Range(m_daeIndices)
                    THEN <<"ImplicitMultibodySystem">>
                    ELSE <<"ImplicitMultibodySystemIgnoringConstraints">>

C22_Witness ==
    /\ m_xdot.built
    /\ m_solver.implicit
    /\ m_numPointsIgnoringConstraints > 0
    /\ m_problem.numSpeeds = 1
    /\ m_constraints.residuals.data[<<0, 0>>] = <<"ImplicitMultibodySystem">>
    /\ m_constraints.residuals.data[<<0, 1>>] =
            <<"ImplicitMultibodySystemIgnoringConstraints">>
    /\ m_xdot.dynamics[<<1, 1>>] = <<"derivatives">>

\* C23: in explicit mode, after transcribe every column of the udot rows
\* (NQ .. NQ+NU-1) and of the zdot rows (NQ+NU .. NS-1) of xdot is assigned
\* exactly once: the DAE columns by the constrained dynamics function, the IIC
\* columns by the function that ignores the constraints; that function is
\* evaluated only when P > 0, and the kinematic-constraint block is written by
\* the DAE evaluation alone.
C23_ExplicitAssignments ==
    (m_xdot.built /\ ~m_solver.implicit) =>
        LET NQ == m_problem.numCoordinates
            NS == getNumStates(m_problem)
            G == m_numGridPoints
            K == m_problem.numKinematicConstraintEquations
            kin == m_constraints.kinematic
        IN /\ DOMAIN m_xdot.dynamics = (NQ .. NS - 1) \X (0 .. G - 1)
           /\ \A r \in NQ .. NS - 1 : \A c \in 0 .. G - 1 :
                m_xdot.dynamics[<<r, c>>] =
                    IF c \in Range(m_daeIndices)
                    THEN <<"MultibodySystem">>
                    ELSE <<"MultibodySystemIgnoringConstraints">>
           /\ (\E i \in DOMAIN trajCalls :
                 trajCalls[i].function = "MultibodySystemIgnoringConstraints")
                => m_numPointsIgnoringConstraints > 0
           /\ \A q \in DOMAIN kin.data : kin.data[q] = <<"MultibodySystem">>

C23_Witness ==
    /\ m_xdot.built
    /\ ~m_solver.implicit
    /\ m_numPointsIgnoringConstraints > 0
    /\ m_problem.numCoordinates = 1
    /\ m_problem.numAuxiliaryStates = 1
    /\ m_xdot.dynamics[<<1, 0>>] = <<"MultibodySystem">>
    /\ m_xdot.dynamics[<<2, 1>>] = <<"MultibodySystemIgnoringConstraints">>
    /\ m_xdot.dynamics[<<1, 1>>] = <<"MultibodySystemIgnoringConstraints">>

ReportLines(sites) ==
    {i \in DOMAIN fnOut.events :
        fnOut.events[i].event = "line" /\ fnOut.events[i].site \in sites}

\* The time of mesh point i: the time of the grid point it is.
TimeOfMeshPoint(i) == iterateTimes(m_numGridPoints)[m_daeIndices[i + 1]]

\* C24: the time of max printed for a defect, kinematic-constraint or
\* path-constraint row, and the time on each line of the per-mesh-point value
\* tables, is the time of the mesh interval or mesh point of the column: for a
\* mesh point its own time, for a mesh interval a time between its two mesh
\* points; also when the grid has interior points.
C24_TimeOfColumn ==
    pc = "rows printed" =>
        /\ \A i \in ReportLines({"kinematic", "path", "kinematic values",
                                 "path values"}) :
              fnOut.events[i].time = TimeOfMeshPoint(fnOut.events[i].index)
        /\ \A i \in ReportLines({"defects"}) :
              /\ fnOut.events[i].time >= TimeOfMeshPoint(fnOut.events[i].index)
              /\ fnOut.events[i].time
                    <= TimeOfMeshPoint(fnOut.events[i].index + 1)

\* C25: the defect section of a report that runs to its end has exactly one
\* line for each of the Nd rows of the defect block, for every scheme.
C25_DefectLines ==
    (pc = "rows printed" /\ fnOut.completed) =>
        /\ Cardinality(ReportLines({"defects"})) = m_numDefectsPerGridPoint
        /\ {fnOut.events[i].row : i \in ReportLines({"defects"})}
                = 0 .. m_numDefectsPerGridPoint - 1

\* C27: during the report every indexed access stays inside what it indexes:
\* the columns of each block's tables, the name list a row is labelled from,
\* the rows of the defect and kinematic blocks.
C27_AccessesInRange ==
    pc = "rows printed" =>
        \A i \in DOMAIN fnOut.events :
            fnOut.events[i].event = "access" => accessInRange(fnOut.events[i])

\* C26: for every call of evalOnTrajectory made by transcribe and setObjective,
\* each input handed to the mapped point function (the time row, every
\* requested block, the parameter trajectory) has as many columns as the
\* index vector has entries; the slacks, passed whole, are requested only
\* with the IIC index vector.
C26_InputColumns ==
    \A i \in DOMAIN trajCalls :
        LET call == trajCalls[i]
            n == Len(memberValue(call.timeIndices))
        IN /\ Len(call.columns) = Len(call.inputs) + 2
           /\ \A k \in DOMAIN call.columns : call.columns[k] = n
           /\ (\E k \in DOMAIN call.inputs : call.inputs[k] = "slacks")
                => call.timeIndices = "m_daeIndicesIgnoringConstraints"

C26_Witness ==
    /\ m_xdot.built
    /\ m_problem.numSlacks = 1
    /\ m_numPointsIgnoringConstraints = 2
    /\ \E i \in DOMAIN trajCalls :
        /\ trajCalls[i].function = "VelocityCorrection"
        /\ trajCalls[i].inputs = <<"multibody_states", "slacks">>
        /\ trajCalls[i].columns = <<2, 2, 2, 2>>
    /\ \E i \in DOMAIN trajCalls :
        /\ trajCalls[i].timeIndices = "m_daeIndices"
        /\ trajCalls[i].columns = <<3, 3, 3, 3, 3, 3>>

BoundsDone == pc \in {"bounds printed", "report thrown"}

BlockLines(b) == {i \in DOMAIN fnOut.lines : fnOut.lines[i].block = b}

\* C29: in the bounds section, the summary printed for a block agrees with the
\* rows listed under it: "no bounds active or violated" exactly when no cell
\* is listed, "some bounds active but no bounds violated" exactly when a cell
\* is listed and none carries *, "some bounds active or violated" exactly when
\* a listed cell carries *; for the time-varying blocks and for the time and
\* parameter blocks.
C29_SummaryAgreesWithLines ==
    BoundsDone =>
        \A k \in DOMAIN fnOut.blocks :
            LET b == fnOut.blocks[k]
                summary == fnOut.summaries[k]
                starred == \E i \in BlockLines(b) : fnOut.lines[i].star
            IN summary /= "" =>
                /\ summary \in {"no bounds active or violated",
                                "some bounds active but no bounds violated",
                                "some bounds active or violated"}
                /\ (summary = "no bounds active or violated")
                        <=> (BlockLines(b) = {})
                /\ (summary = "some bounds active but no bounds violated")
                        <=> (BlockLines(b) /= {} /\ ~starred)
                /\ (summary = "some bounds active or violated") <=> starred

C29_Witness ==
    /\ pc = "bounds printed"
    /\ fnOut.blocks[1] = "states"
    /\ fnOut.summaries[1] = "some bounds active but no bounds violated"
    /\ fnOut.blocks[6] = "time"
    /\ fnOut.summaries[6] = "some bounds active or violated"
    /\ \E i \in BlockLines("time") : fnOut.lines[i].row = 1 /\ ~fnOut.lines[i].star
    /\ fnOut.blocks[7] = "parameters"
    /\ fnOut.summaries[7] = "no bounds active or violated"
    /\ fnIn.parameters.rows = 1

====
